---- MODULE Spec2Model ----
(***************************************************************************)
(* Model of bassosimone/dnstest: the HandlerConfig record store (a mutex   *)
(* guarded map from canonical names to slices of resource records) and the *)
(* Handler that answers queries by chasing CNAME chains over that store.   *)
(*                                                                         *)
(* Go slices are modelled as (backing array, length) pairs over a heap of  *)
(* backing arrays, so that sharing between a store and its clone is        *)
(* something the model can express.                                        *)
(***************************************************************************)
EXTENDS Integers, Sequences, FiniteSets, TLC

VARIABLES
    rrs,      \* handle -> (canonical name -> slice): HandlerConfig.rrs of each live store
    arrays,   \* heap of the backing arrays of the slices stored in rrs
    last,     \* the most recent call of Lookup, PrepareResponse or Clone and its result
    log,      \* history: handle -> owner (of every name ever added) -> what was
              \* added to the name since its last Remove
    procs,    \* goroutine -> its position in the code and its local variables
    objs      \* the other objects: the mutex of the store, a server, an HTTP exchange

vars == <<rrs, arrays, last, log, procs, objs>>

-----------------------------------------------------------------------------
(* Bounds of the model.                                                    *)

NumLabels == 2        \* distinct owner names used by Spec and SpecClone
MaxRecs == 2          \* records held by one store in Spec
MaxRecsClone == 4     \* records held by one store in SpecClone
MaxChain == 11        \* longest alias chain built in SpecChain

-----------------------------------------------------------------------------
(* Domain names.  A name is a sequence of one-character strings.           *)

LowerChars == <<"a", "b", "c", "d", "e", "f", "g", "h", "i", "j", "k", "l", "m", "n">>
UpperChars == <<"A", "B", "C", "D", "E", "F", "G", "H", "I", "J", "K", "L", "M", "N">>

ToLower(ch) ==
    IF \E i \in 1..Len(UpperChars) : UpperChars[i] = ch
    THEN LowerChars[CHOOSE i \in 1..Len(UpperChars) : UpperChars[i] = ch]
    ELSE ch

IsFqdn(s) == Len(s) > 0 /\ s[Len(s)] = "."

Fqdn(s) == IF IsFqdn(s) THEN s ELSE s \o <<".">>

\* a canonical form that keeps the case of the letters
CanonicalNameKeepsCase(s) == Fqdn(s)

\* dns.CanonicalName: the fully qualified name, in lower case
CanonicalName(s) == LET f == Fqdn(s) IN [i \in 1..Len(f) |-> ToLower(f[i])]

\* the canonical name and one non-canonical spelling (upper case, no
\* trailing dot) of the i-th owner name
NameOf(i) == <<LowerChars[i], ".">>
AltNameOf(i) == <<UpperChars[i]>>

Names(n) == {NameOf(i) : i \in 1..n}
RawNames(n) == Names(n) \cup {AltNameOf(i) : i \in 1..n}

-----------------------------------------------------------------------------
(* Values of github.com/miekg/dns and net/netip used by the code.          *)

TypeA == "A"
TypeAAAA == "AAAA"
TypeCNAME == "CNAME"
TypeTXT == "TXT"
ClassINET == "IN"
ClassCHAOS == "CH"
RcodeSuccess == "NOERROR"
RcodeServerFailure == "SERVFAIL"
RcodeNameError == "NXDOMAIN"
RcodeRefused == "REFUSED"

QTypes == {TypeA, TypeAAAA, TypeCNAME, TypeTXT}

V4Addrs == {"1.1.1.1", "8.8.8.8"}
V6Addrs == {"::1"}
Addrs == V4Addrs \cup V6Addrs

\* netip.Addr.Is6
Is6(addr) == addr \in V6Addrs

handlerDefaultTTL == 3600
maxCNAMEChain == 10

-----------------------------------------------------------------------------
(* Slices and their backing arrays.                                        *)
(* A slice is [arr, len]; arrays[arr] is [elems, cap], elems being the     *)
(* slots written so far.  The nil slice has no array and capacity 0.       *)

Handles == {"config1", "config2"}

NilArr == <<"nil">>
NilSlice == [arr |-> NilArr, len |-> 0]

Cap(H, s) == IF s.arr = NilArr THEN 0 ELSE H[s.arr].cap

\* the elements a slice shows
Elems(H, s) == IF s.arr = NilArr THEN <<>> ELSE SubSeq(H[s.arr].elems, 1, s.len)

\* the arrays some slice of some store refers to, the entry (c, key) left out
RefsExcept(R, c, key) ==
    UNION {{R[d][k].arr : k \in {k \in DOMAIN R[d] : <<d, k>> # <<c, key>>}} : d \in DOMAIN R}

Refs(R) == UNION {{R[d][k].arr : k \in DOMAIN R[d]} : d \in DOMAIN R}

\* the address of the array that the allocator hands out for entry (c, key)
FreshArr(R, c, key) ==
    <<c, key, CHOOSE n \in 0..Cardinality(Handles) :
                 /\ <<c, key, n>> \notin RefsExcept(R, c, key)
                 /\ \A m \in 0..(n - 1) : <<c, key, m>> \in RefsExcept(R, c, key)>>

\* runtime growslice for one more element
GrowCap(cap) == IF cap = 0 THEN 1 ELSE 2 * cap

\* append(s, x): in place when the capacity allows, else into a new array
\* at address fresh.  Result: the new heap and the new slice.
AppendOne(H, s, x, fresh) ==
    IF s.len < Cap(H, s)
    THEN LET a == H[s.arr]
             e == IF s.len < Len(a.elems)
                  THEN [a.elems EXCEPT ![s.len + 1] = x]
                  ELSE Append(a.elems, x)
         IN [arrays |-> [H EXCEPT ![s.arr] = [a EXCEPT !.elems = e]],
             slice |-> [arr |-> s.arr, len |-> s.len + 1]]
    ELSE [arrays |-> (fresh :> [elems |-> Append(Elems(H, s), x),
                                cap |-> GrowCap(Cap(H, s))]) @@ H,
          slice |-> [arr |-> fresh, len |-> s.len + 1]]

\* the garbage collector: only referenced arrays stay on the heap
Collect(R, H) == [a \in Refs(R) |-> H[a]]

\* the records stored under each name of store c
Content(R, H, c) == [k \in DOMAIN R[c] |-> Elems(H, R[c][k])]

\* number of records store c holds
RECURSIVE SumLen(_, _)
SumLen(m, keys) ==
    IF keys = {} THEN 0
    ELSE LET k == CHOOSE k \in keys : TRUE IN m[k].len + SumLen(m, keys \ {k})

Total(c) == SumLen(rrs[c], DOMAIN rrs[c])

-----------------------------------------------------------------------------
(* HandlerConfig.                                                          *)

\* the records AddNetipAddr and AddCNAME construct
NewA(name, addr) ==
    [Hdr |-> [Name |-> name, Rrtype |-> TypeA, Class |-> ClassINET, Ttl |-> handlerDefaultTTL],
     A |-> addr]

NewAAAA(name, addr) ==
    [Hdr |-> [Name |-> name, Rrtype |-> TypeAAAA, Class |-> ClassINET, Ttl |-> handlerDefaultTTL],
     AAAA |-> addr]

NewCNAME(name, cname) ==
    [Hdr |-> [Name |-> name, Rrtype |-> TypeCNAME, Class |-> ClassINET, Ttl |-> handlerDefaultTTL],
     Target |-> cname]

\* NewHandlerConfig: the empty map
NewHandlerConfig == <<>>

\* c.rrs[name] = []dns.RR{record}: the record replaces the entry
AppendRecordReplaces(R, H, c, name, record) ==
    LET ap == AppendOne(H, NilSlice, record, FreshArr(R, c, name))
        R2 == [R EXCEPT ![c] = (name :> ap.slice) @@ R[c]]
    IN [rrs |-> R2, arrays |-> Collect(R2, ap.arrays)]

\* the record goes in front: c.rrs[name] = append([]dns.RR{record}, c.rrs[name]...)
AppendRecordFirst(R, H, c, name, record) ==
    LET old == IF name \in DOMAIN R[c] THEN Elems(H, R[c][name]) ELSE <<>>
        fresh == FreshArr(R, c, name)
        H2 == (fresh :> [elems |-> <<record>> \o old, cap |-> Len(old) + 1]) @@ H
        R2 == [R EXCEPT ![c] = (name :> [arr |-> fresh, len |-> Len(old) + 1]) @@ R[c]]
    IN [rrs |-> R2, arrays |-> Collect(R2, H2)]

\* c.rrs[name] = append(c.rrs[name], record)
AppendRecord(R, H, c, name, record) ==
    LET old == IF name \in DOMAIN R[c] THEN R[c][name] ELSE NilSlice
        ap == AppendOne(H, old, record, FreshArr(R, c, name))
        R2 == [R EXCEPT ![c] = (name :> ap.slice) @@ R[c]]
    IN [rrs |-> R2, arrays |-> Collect(R2, ap.arrays)]

\* the store after AddNetipAddr(name, addr)
StoreAddNetipAddr(R, H, c, name, addr) ==
    LET n == CanonicalName(name)
        record == IF Is6(addr) THEN NewAAAA(n, addr) ELSE NewA(n, addr)
    IN AppendRecord(R, H, c, n, record)

\* AddCNAME that files the record under the target
StoreAddCNAMESwapped(R, H, c, name, cname) ==
    LET n == CanonicalName(name)
        t == CanonicalName(cname)
    IN AppendRecord(R, H, c, t, NewCNAME(n, t))

\* the store after AddCNAME(name, cname)
StoreAddCNAME(R, H, c, name, cname) ==
    LET n == CanonicalName(name)
        t == CanonicalName(cname)
    IN AppendRecord(R, H, c, n, NewCNAME(n, t))

\* Remove that keeps the name with no records: c.rrs[name] = nil
StoreRemoveEmpties(R, H, c, name) ==
    LET n == CanonicalName(name)
        R2 == [R EXCEPT ![c] = [k \in DOMAIN R[c] |-> IF k = n THEN NilSlice ELSE R[c][k]]]
    IN [rrs |-> R2, arrays |-> [a \in Refs(R2) \ {NilArr} |-> H[a]]]

\* Remove that deletes the name as spelled: delete(c.rrs, name)
\* a Remove that deletes every key of the map
StoreRemoveClears(R, H, c, name) ==
    LET R2 == [R EXCEPT ![c] = <<>>]
    IN [rrs |-> R2, arrays |-> [a \in Refs(R2) \ {NilArr} |-> H[a]]]

StoreRemoveRaw(R, H, c, name) ==
    LET R2 == [R EXCEPT ![c] = [k \in DOMAIN R[c] \ {name} |-> R[c][k]]]
    IN [rrs |-> R2, arrays |-> Collect(R2, H)]

\* the store after Remove(name): delete(c.rrs, dns.CanonicalName(name))
StoreRemove(R, H, c, name) ==
    LET R2 == [R EXCEPT ![c] = [k \in DOMAIN R[c] \ {CanonicalName(name)} |-> R[c][k]]]
    IN [rrs |-> R2, arrays |-> Collect(R2, H)]

\* Clone that stores the slices of c in the new map: out.rrs[key] = value
StoreCloneShallow(R, H, c, out) ==
    LET R2 == (out :> R[c]) @@ R
    IN [rrs |-> R2, arrays |-> Collect(R2, H)]

\* the stores after out := c.Clone(): every value is copied into a new
\* array of capacity len(value)
StoreClone(R, H, c, out) ==
    LET base == (out :> NewHandlerConfig) @@ R
        addr(key) == FreshArr(base, out, key)
        m == [key \in DOMAIN R[c] |-> [arr |-> addr(key), len |-> R[c][key].len]]
        H2 == [a \in {addr(key) : key \in DOMAIN R[c]} |->
                 LET key == CHOOSE key \in DOMAIN R[c] : addr(key) = a
                 IN [elems |-> Elems(H, R[c][key]), cap |-> R[c][key].len]] @@ H
        R2 == (out :> m) @@ R
    IN [rrs |-> R2, arrays |-> Collect(R2, H2)]

\* the loop of Lookup: the records whose type is qtype, in order
RECURSIVE FilterType(_, _, _)
FilterType(records, qtype, filtered) ==
    IF records = <<>> THEN filtered
    ELSE FilterType(Tail(records), qtype,
                    IF qtype = Head(records).Hdr.Rrtype
                    THEN Append(filtered, Head(records))
                    ELSE filtered)

\* Lookup that reports a name as found only when it has records of the type
LookupFoundIfRecords(R, H, c, name, qtype) ==
    LET key == CanonicalName(name)
        records == IF key \in DOMAIN R[c] THEN Elems(H, R[c][key]) ELSE <<>>
        filtered == FilterType(records, qtype, <<>>)
    IN [records |-> filtered, found |-> Len(filtered) > 0]

\* Lookup(name, qtype): (filtered, found)
Lookup(R, H, c, name, qtype) ==
    LET key == CanonicalName(name)
        found == key \in DOMAIN R[c]
        records == IF found THEN Elems(H, R[c][key]) ELSE <<>>
    IN [records |-> FilterType(records, qtype, <<>>), found |-> found]

-----------------------------------------------------------------------------
(* Handler.                                                                *)

Question(name, qtype, qclass) == [Name |-> name, Qtype |-> qtype, Qclass |-> qclass]

Msg(response, question) == [Response |-> response, Question |-> question]

\* resp.SetRcode(query, rcode) and resp.SetReply(query) with its Answer
Reply(rcode, answer) == [Rcode |-> rcode, Answer |-> answer]

\* an answer with the records found ahead of the aliases traversed
AnswerRecordsFirst(cnames, records) == records \o cnames

\* an answer made of the aliases traversed alone
AnswerAliasesOnly(cnames, records) == cnames

\* 3.2: the answer of a successful chase
Answer(cnames, records) == cnames \o records

\* a chase that goes on with the target of the last alias of the name
NextNameLast(records) == records[Len(records)].Target

\* 3.3.2: the name the chase goes on with
NextName(records) == records[1].Target

\* NXDOMAIN also for a name that exists without the requested type
NoSuchTypeAsNameError == Reply(RcodeNameError, <<>>)

\* 3.3.3: NOERROR, empty answer
NoSuchType == Reply(RcodeSuccess, <<>>)

\* NOERROR with an empty answer also for a name that has no entry
NoSuchNameAsNoSuchType == Reply(RcodeSuccess, <<>>)

\* 3.4: NXDOMAIN
NoSuchName == Reply(RcodeNameError, <<>>)

\* NXDOMAIN when the iterations are used up
ChainTooLongAsNameError == Reply(RcodeNameError, <<>>)

\* 3.5: CNAME chain too long
ChainTooLong == Reply(RcodeServerFailure, <<>>)

\* step 3 of PrepareResponse: the loop, with left iterations to go
RECURSIVE ChaseLoop(_, _, _, _, _, _, _)
ChaseLoop(R, H, c, qName, qType, cnames, left) ==
    IF left = 0
    THEN ChainTooLong
    ELSE LET l == Lookup(R, H, c, qName, qType) IN
         IF l.found /\ Len(l.records) > 0
         THEN Reply(RcodeSuccess, Answer(cnames, l.records))
         ELSE IF l.found /\ Len(l.records) <= 0
         THEN LET l2 == Lookup(R, H, c, qName, TypeCNAME) IN
              IF l2.found /\ Len(l2.records) >= 1
              THEN ChaseLoop(R, H, c, NextName(l2.records), qType,
                             cnames \o l2.records, left - 1)
              ELSE NoSuchType
         ELSE NoSuchName

PrepareResponse(R, H, c, query) ==
    IF query.Response \/ Len(query.Question) # 1
    THEN Reply(RcodeRefused, <<>>)
    ELSE LET q0 == query.Question[1] IN
         IF q0.Qclass # ClassINET
         THEN Reply(RcodeRefused, <<>>)
         ELSE ChaseLoop(R, H, c, q0.Name, q0.Qtype, <<>>, maxCNAMEChain)

-----------------------------------------------------------------------------
(* History kept for the properties: which owner a spelling of a name       *)
(* stands for, and what was added under it.                                *)

OwnerOf(name) ==
    CHOOSE i \in 1..Len(LowerChars) : name \in {NameOf(i), AltNameOf(i)}

AddedAddr(addr) == [type |-> IF addr \in V4Addrs THEN TypeA ELSE TypeAAAA, data |-> addr]
AddedAlias(cname) == [type |-> TypeCNAME, data |-> OwnerOf(cname)]

LogAdd(L, c, name, what) ==
    LET o == OwnerOf(name)
        before == IF o \in DOMAIN L[c] THEN L[c][o] ELSE <<>>
    IN [L EXCEPT ![c] = (o :> Append(before, what)) @@ L[c]]

LogRemove(L, c, name) ==
    LET o == OwnerOf(name)
    IN IF o \in DOMAIN L[c] THEN [L EXCEPT ![c][o] = <<>>] ELSE L

\* the spelling under which the store keeps the owner of name
Stored(name) == NameOf(OwnerOf(name))

\* what a stored record says was added
Payload(rr) ==
    IF rr.Hdr.Rrtype = TypeA THEN [type |-> TypeA, data |-> rr.A]
    ELSE IF rr.Hdr.Rrtype = TypeAAAA THEN [type |-> TypeAAAA, data |-> rr.AAAA]
    ELSE [type |-> TypeCNAME, data |-> OwnerOf(rr.Target)]

Payloads(records) == [i \in 1..Len(records) |-> Payload(records[i])]

\* the records of a sequence of records, or of additions, that have type t
OfType(records, t) == SelectSeq(records, LAMBDA rr : rr.Hdr.Rrtype = t)
AddedOfType(additions, t) == SelectSeq(additions, LAMBDA a : a.type = t)

\* the last k elements of a sequence
Suffix(seq, k) == SubSeq(seq, Len(seq) - k + 1, Len(seq))

IsWellFormed(query) ==
    /\ ~query.Response
    /\ Len(query.Question) = 1
    /\ query.Question[1].Qclass = ClassINET

NoCall == [op |-> "none"]

-----------------------------------------------------------------------------
(* The operations as actions on store c.                                   *)

Init ==
    /\ rrs = [c \in {"config1"} |-> NewHandlerConfig]
    /\ arrays = <<>>
    /\ last = NoCall
    /\ log = [c \in Handles |-> <<>>]
    /\ procs = <<>>
    /\ objs = <<>>

AddNetipAddr(c, name, addr) ==
    LET st == StoreAddNetipAddr(rrs, arrays, c, name, addr) IN
    /\ c \in DOMAIN rrs
    /\ rrs' = st.rrs
    /\ arrays' = st.arrays
    /\ last' = NoCall

AddCNAME(c, name, cname) ==
    LET st == StoreAddCNAME(rrs, arrays, c, name, cname) IN
    /\ c \in DOMAIN rrs
    /\ rrs' = st.rrs
    /\ arrays' = st.arrays
    /\ last' = NoCall

Remove(c, name) ==
    LET st == StoreRemove(rrs, arrays, c, name) IN
    /\ c \in DOMAIN rrs
    /\ rrs' = st.rrs
    /\ arrays' = st.arrays
    /\ last' = NoCall

LookupCall(c, name, qtype) ==
    LET l == Lookup(rrs, arrays, c, name, qtype) IN
    /\ c \in DOMAIN rrs
    /\ last' = [op |-> "Lookup", cfg |-> c, name |-> name, qtype |-> qtype,
                records |-> l.records, found |-> l.found]
    /\ UNCHANGED <<rrs, arrays>>

PrepareResponseCall(c, query) ==
    /\ c \in DOMAIN rrs
    /\ last' = [op |-> "PrepareResponse", cfg |-> c, query |-> query,
                resp |-> PrepareResponse(rrs, arrays, c, query)]
    /\ UNCHANGED <<rrs, arrays>>

Clone(c, out) ==
    LET st == StoreClone(rrs, arrays, c, out) IN
    /\ c \in DOMAIN rrs
    /\ out # c
    /\ rrs' = st.rrs
    /\ arrays' = st.arrays
    /\ last' = [op |-> "Clone", cfg |-> c, out |-> out]

\* The caller makes one call at a time: it is idle, or it holds the result
\* of the call it just made, and drops the result before its next call.
Idle == last = NoCall

Discard ==
    /\ last # NoCall
    /\ last' = NoCall
    /\ UNCHANGED <<rrs, arrays, log, procs, objs>>

-----------------------------------------------------------------------------
(* Spec: one store, every operation, every spelling of NumLabels names.    *)

WellFormed(names) ==
    {Msg(FALSE, <<Question(n, t, ClassINET)>>) : n \in names, t \in QTypes}

Malformed ==
    {Msg(TRUE, <<Question(NameOf(1), TypeA, ClassINET)>>),
     Msg(FALSE, <<>>),
     Msg(FALSE, <<Question(NameOf(1), TypeA, ClassINET), Question(NameOf(1), TypeAAAA, ClassINET)>>),
     Msg(FALSE, <<Question(NameOf(1), TypeA, ClassCHAOS)>>)}

Queries(names) == WellFormed(names) \cup Malformed

NextAddNetipAddr ==
    \E name \in RawNames(NumLabels), addr \in Addrs :
        /\ Idle
        /\ Total("config1") < MaxRecs
        /\ AddNetipAddr("config1", name, addr)
        /\ log' = LogAdd(log, "config1", name, AddedAddr(addr))
        /\ UNCHANGED <<procs, objs>>

NextAddCNAME ==
    \E name \in RawNames(NumLabels), cname \in RawNames(NumLabels) :
        /\ Idle
        /\ Total("config1") < MaxRecs
        /\ AddCNAME("config1", name, cname)
        /\ log' = LogAdd(log, "config1", name, AddedAlias(cname))
        /\ UNCHANGED <<procs, objs>>

NextRemove ==
    \E name \in RawNames(NumLabels) :
        /\ Idle
        /\ Remove("config1", name)
        /\ log' = LogRemove(log, "config1", name)
        /\ UNCHANGED <<procs, objs>>

NextLookup ==
    \E name \in RawNames(NumLabels), qtype \in QTypes :
        Idle /\ LookupCall("config1", name, qtype) /\ UNCHANGED <<log, procs, objs>>

NextPrepareResponse ==
    \E query \in Queries(RawNames(NumLabels)) :
        Idle /\ PrepareResponseCall("config1", query) /\ UNCHANGED <<log, procs, objs>>

Next ==
    \/ NextAddNetipAddr
    \/ NextAddCNAME
    \/ NextRemove
    \/ NextLookup
    \/ NextPrepareResponse
    \/ Discard

Spec == Init /\ [][Next]_vars

-----------------------------------------------------------------------------
(* SpecClone: a store and its clone, both mutated after the copy.          *)

CloneAddrs == {"1.1.1.1", "::1"}
CloneNames == {NameOf(1), NameOf(2)}

\* the additions made in SpecClone: two kinds of record for the first name,
\* one for the second
CloneAdds == {<<NameOf(1), "1.1.1.1">>, <<NameOf(1), "::1">>, <<NameOf(2), "1.1.1.1">>}

NextCloneAdd ==
    \E c \in Handles, add \in CloneAdds :
        /\ Idle
        /\ c \in DOMAIN rrs
        /\ Total(c) < MaxRecsClone
        /\ AddNetipAddr(c, add[1], add[2])
        /\ UNCHANGED <<log, procs, objs>>

NextCloneRemove ==
    \E c \in Handles, name \in CloneNames :
        Idle /\ Remove(c, name) /\ UNCHANGED <<log, procs, objs>>

NextCloneClone ==
    \E c \in Handles, out \in Handles :
        Idle /\ Clone(c, out) /\ UNCHANGED <<log, procs, objs>>

NextClone ==
    \/ NextCloneAdd
    \/ NextCloneRemove
    \/ NextCloneClone
    \/ Discard

SpecClone == Init /\ [][NextClone]_vars

-----------------------------------------------------------------------------
(* SpecChain: one store holding an alias chain NameOf(1) -> NameOf(2) ->   *)
(* ... built link by link, ended by an address, a dangling target or a     *)
(* link back into the chain, with at most one name holding a second alias. *)

ChainStore == Content(rrs, arrays, "config1")

\* the highest owner the store has an entry for
Top(store) ==
    LET present == {i \in 1..(MaxChain + 1) : NameOf(i) \in DOMAIN store}
    IN IF present = {} THEN 0 ELSE CHOOSE i \in present : \A j \in present : j <= i

\* the chain can grow at owner top + 1
Open(store, top) ==
    IF top = 0 THEN TRUE
    ELSE IF Head(store[NameOf(top)]).Hdr.Rrtype # TypeCNAME THEN FALSE
    ELSE Head(store[NameOf(top)]).Target = NameOf(top + 1)

ChainQueries ==
    {Msg(FALSE, <<Question(n, t, ClassINET)>>) :
        n \in {NameOf(1), AltNameOf(1), NameOf(2)}, t \in {TypeA, TypeAAAA, TypeCNAME}}

NextChainAlias ==
    \E store \in {ChainStore} : \E top \in {Top(store)} : \E j \in 1..(top + 2) :
        /\ Idle
        /\ Open(store, top)
        /\ top + 1 <= MaxChain
        /\ AddCNAME("config1", NameOf(top + 1), NameOf(j))
        /\ UNCHANGED <<log, procs, objs>>

NextChainAddr ==
    \E store \in {ChainStore} : \E top \in {Top(store)} : \E addr \in CloneAddrs :
        /\ Idle
        /\ Open(store, top)
        /\ AddNetipAddr("config1", AltNameOf(top + 1), addr)
        /\ UNCHANGED <<log, procs, objs>>

NextChainSecond ==
    \E store \in {ChainStore} : \E top \in {Top(store)} : \E i \in 1..top :
        /\ Idle
        /\ \A k \in DOMAIN store : Len(store[k]) = 1
        /\ Head(store[NameOf(i)]).Hdr.Rrtype = TypeCNAME
        /\ AddCNAME("config1", NameOf(i), NameOf(1))
        /\ UNCHANGED <<log, procs, objs>>

NextChainPrepareResponse ==
    \E query \in ChainQueries :
        Idle /\ PrepareResponseCall("config1", query) /\ UNCHANGED <<log, procs, objs>>

NextChain ==
    \/ NextChainAlias
    \/ NextChainAddr
    \/ NextChainSecond
    \/ NextChainPrepareResponse
    \/ Discard

SpecChain == Init /\ [][NextChain]_vars

-----------------------------------------------------------------------------
(* Properties of the store (Spec).                                         *)

Store1 == Content(rrs, arrays, "config1")
Log1 == log["config1"]

IsLookup == last.op = "Lookup"
IsResolve == last.op = "PrepareResponse" /\ IsWellFormed(last.query)
QName == last.query.Question[1].Name
QType == last.query.Question[1].Qtype

\* C1: Lookup reports present=false exactly when the canonical form of the
\* name is not a key of the store, and otherwise returns exactly the records
\* of the entry that have the requested type, possibly none.
C1_LookupThreeWay ==
    IsLookup =>
        LET store == Content(rrs, arrays, last.cfg)
            key == Stored(last.name)
        IN /\ (last.found = FALSE) <=> (key \notin DOMAIN store)
           /\ key \in DOMAIN store => last.records = OfType(store[key], last.qtype)

C1_Witness ==
    /\ IsLookup
    /\ last.found
    /\ last.name # Stored(last.name)
    /\ Len(last.records) = 1
    /\ Len(Store1[Stored(last.name)]) = 2

\* C2: while a name is not removed, a Lookup for the type of a record added
\* to it returns the records of that type that were added, and
\* PrepareResponse for the name and that type returns Success with an answer
\* that ends with those records, in the order they were added.
C2_AddedIsServed ==
    /\ IsLookup /\ OwnerOf(last.name) \in DOMAIN Log1 =>
          LET want == AddedOfType(Log1[OwnerOf(last.name)], last.qtype)
          IN want # <<>> => last.found /\ Payloads(last.records) = want
    /\ IsResolve /\ OwnerOf(QName) \in DOMAIN Log1 =>
          LET want == AddedOfType(Log1[OwnerOf(QName)], QType)
          IN want # <<>> =>
                /\ last.resp.Rcode = RcodeSuccess
                /\ Len(last.resp.Answer) >= Len(want)
                /\ Payloads(Suffix(last.resp.Answer, Len(want))) = want

C2_Witness ==
    /\ IsResolve
    /\ OwnerOf(QName) \in DOMAIN Log1
    /\ LET want == AddedOfType(Log1[OwnerOf(QName)], QType)
       IN Len(want) = 2 /\ want[1] # want[2]
    /\ last.resp.Rcode = RcodeSuccess

\* C3: a name that was never added has no entry: Lookup reports
\* present=false for it and PrepareResponse returns NameError with an empty
\* answer, whatever was done to other names.
C3_NeverAddedIsAbsent ==
    /\ IsLookup /\ OwnerOf(last.name) \notin DOMAIN Log1 => last.found = FALSE
    /\ IsResolve /\ OwnerOf(QName) \notin DOMAIN Log1 =>
          last.resp = [Rcode |-> RcodeNameError, Answer |-> <<>>]

C3_Witness ==
    /\ IsResolve
    /\ OwnerOf(QName) \notin DOMAIN Log1
    /\ \E k \in DOMAIN Store1 :
          \E i \in 1..Len(Store1[k]) :
             /\ Store1[k][i].Hdr.Rrtype = TypeCNAME
             /\ Store1[k][i].Target = Stored(QName)
    /\ last.resp.Rcode = RcodeNameError

\* C4: after Remove(name) and until something is added to the name again,
\* Lookup reports present=false and no records for every type, and
\* PrepareResponse returns NameError.
C4_RemovedIsAbsent ==
    /\ IsLookup /\ OwnerOf(last.name) \in DOMAIN Log1 =>
          (Log1[OwnerOf(last.name)] = <<>> => last.found = FALSE /\ last.records = <<>>)
    /\ IsResolve /\ OwnerOf(QName) \in DOMAIN Log1 =>
          (Log1[OwnerOf(QName)] = <<>> => last.resp.Rcode = RcodeNameError)

C4_Witness ==
    /\ IsLookup
    /\ OwnerOf(last.name) \in DOMAIN Log1
    /\ Log1[OwnerOf(last.name)] = <<>>
    /\ DOMAIN Store1 # {}
    /\ last.found = FALSE

-----------------------------------------------------------------------------
(* Properties of Clone (SpecClone).                                        *)

\* what every Lookup on store c returns
LookupAll(R, H, c) ==
    [q \in RawNames(2) \X QTypes |-> Lookup(R, H, c, q[1], q[2])]

\* this step is an Add or a Remove on store c
Mutates(c) ==
    \/ \E name \in CloneNames : Remove(c, name)
    \/ \E add \in CloneAdds : AddNetipAddr(c, add[1], add[2])

\* this step leaves the slices of store d and their arrays as they are (then
\* no Lookup on d can tell the difference)
Untouched(d) ==
    /\ rrs'[d] = rrs[d]
    /\ \A k \in DOMAIN rrs[d] : arrays'[rrs[d][k].arr] = arrays[rrs[d][k].arr]

\* C5: Clone returns a store with the names and records of the original, in
\* the same order, and leaves the original as it was; afterwards an Add or a
\* Remove on one of the two stores changes no Lookup result of the other.
C5_CloneIndependent ==
    [][/\ last'.op = "Clone" =>
             /\ Content(rrs', arrays', last'.out) = Content(rrs, arrays, last'.cfg)
             /\ Content(rrs', arrays', last'.cfg) = Content(rrs, arrays, last'.cfg)
       /\ \A d \in DOMAIN rrs :
             \/ Untouched(d)
             \/ \A c \in DOMAIN rrs \ {d} : ~Mutates(c)
             \/ LookupAll(rrs', arrays', d) = LookupAll(rrs, arrays, d)]_vars

C5_Witness ==
    /\ DOMAIN rrs = Handles
    /\ last = NoCall
    /\ \E n \in CloneNames :
          /\ n \in DOMAIN rrs["config1"] /\ n \in DOMAIN rrs["config2"]
          /\ LET r1 == Elems(arrays, rrs["config1"][n])
                 r2 == Elems(arrays, rrs["config2"][n])
             IN /\ Len(r1) = 4 /\ Len(r2) = 4
                /\ SubSeq(r1, 1, 3) = SubSeq(r2, 1, 3)
                /\ r1[4] # r2[4]

-----------------------------------------------------------------------------
(* Properties of the alias chase (Spec and SpecChain).                     *)

\* The chase read off the store: starting at name, follow the first alias of
\* each name that has an entry, no record of type t and an alias.  path is
\* the names whose alias was followed, end the name arrived at.
WalkFuel == MaxChain + 2

RECURSIVE Walk(_, _, _, _, _)
Walk(store, name, t, path, fuel) ==
    IF \/ fuel = 0
       \/ name \notin DOMAIN store
    THEN [path |-> path, end |-> name]
    ELSE IF OfType(store[name], t) # <<>> \/ OfType(store[name], TypeCNAME) = <<>>
    THEN [path |-> path, end |-> name]
    ELSE Walk(store, Head(OfType(store[name], TypeCNAME)).Target, t,
              Append(path, name), fuel - 1)

ChaseOf(store, name, t) == Walk(store, Stored(name), t, <<>>, WalkFuel)

\* the chase follows at least one alias, stays within the iterations and
\* arrives at a name with records of type t
Resolves(store, w, t) ==
    /\ Len(w.path) >= 1
    /\ Len(w.path) < maxCNAMEChain
    /\ w.end \in DOMAIN store
    /\ OfType(store[w.end], t) # <<>>

\* the alias that was followed at each name of the path
FollowedAliases(store, path) ==
    [i \in 1..Len(path) |-> Head(OfType(store[path[i]], TypeCNAME))]

\* all aliases of all names of the path
RECURSIVE AllAliases(_, _)
AllAliases(store, path) ==
    IF path = <<>> THEN <<>>
    ELSE OfType(store[Head(path)], TypeCNAME) \o AllAliases(store, Tail(path))

\* C6 as stated: the answer of a chase that arrives at records of the
\* requested type is the aliases traversed (the one followed at each name),
\* in order, and then those records.
C6_AnswerIsFollowedAliases ==
    IsResolve =>
        LET w == ChaseOf(ChainStore, QName, QType)
        IN Resolves(ChainStore, w, QType) =>
              last.resp = [Rcode |-> RcodeSuccess,
                           Answer |-> FollowedAliases(ChainStore, w.path)
                                         \o OfType(ChainStore[w.end], QType)]

\* C6, amended: the answer of a chase that arrives at records of the
\* requested type is all the alias records of every name the chase went
\* through, in the order of the names and of insertion, and then the records
\* of the requested type of the last name in insertion order; the chase goes
\* on with the target of the first alias of each name.
C6_AnswerIsAllAliases ==
    IsResolve =>
        LET w == ChaseOf(ChainStore, QName, QType)
        IN Resolves(ChainStore, w, QType) =>
              last.resp = [Rcode |-> RcodeSuccess,
                           Answer |-> AllAliases(ChainStore, w.path)
                                         \o OfType(ChainStore[w.end], QType)]

C6_Witness ==
    /\ IsResolve
    /\ LET w == ChaseOf(ChainStore, QName, QType)
       IN /\ Resolves(ChainStore, w, QType)
          /\ Len(w.path) >= 2
          /\ \E i \in 1..Len(w.path) : Len(ChainStore[w.path[i]]) = 2
    /\ last.resp.Rcode = RcodeSuccess

\* the store holds exactly the alias a -> b and the alias b -> a
IsAliasLoop(store, a, b) ==
    /\ a # b
    /\ DOMAIN store = {NameOf(a), NameOf(b)}
    /\ Payloads(store[NameOf(a)]) = <<[type |-> TypeCNAME, data |-> b]>>
    /\ Payloads(store[NameOf(b)]) = <<[type |-> TypeCNAME, data |-> a]>>

\* C7 as stated: with exactly the aliases a -> b and b -> a in the store,
\* PrepareResponse for a returns ServerFailure with an empty answer for
\* every requested type.
C7_LoopFailsForAnyType ==
    IsResolve =>
        \A a, b \in 1..NumLabels :
            IsAliasLoop(Store1, a, b) /\ OwnerOf(QName) = a =>
                last.resp = [Rcode |-> RcodeServerFailure, Answer |-> <<>>]

\* C7, amended: with exactly the aliases a -> b and b -> a in the store,
\* PrepareResponse for a returns ServerFailure with an empty answer for
\* every requested type other than the alias type, and Success with the
\* alias record of a for the alias type.
C7_LoopFailsUnlessAliasType ==
    IsResolve =>
        \A a, b \in 1..NumLabels :
            IsAliasLoop(Store1, a, b) /\ OwnerOf(QName) = a =>
                IF QType = TypeCNAME
                THEN /\ last.resp.Rcode = RcodeSuccess
                     /\ last.resp.Answer = Store1[NameOf(a)]
                ELSE last.resp = [Rcode |-> RcodeServerFailure, Answer |-> <<>>]

C7_Witness ==
    /\ IsResolve
    /\ \E a, b \in 1..NumLabels : IsAliasLoop(Store1, a, b) /\ OwnerOf(QName) = a
    /\ QType = TypeA
    /\ last.resp.Rcode = RcodeServerFailure

\* C8: PrepareResponse returns ServerFailure only when the alias chain from
\* the queried name has more than 10 hops (or is a cycle), and a chain of 10
\* or fewer hops that arrives at records of the requested type is resolved
\* with Success.
C8_TenHopsResolve ==
    IsResolve =>
        LET w == ChaseOf(ChainStore, QName, QType)
        IN /\ last.resp.Rcode = RcodeServerFailure => Len(w.path) > maxCNAMEChain
           /\ /\ Len(w.path) <= maxCNAMEChain
              /\ w.end \in DOMAIN ChainStore
              /\ OfType(ChainStore[w.end], QType) # <<>>
              => last.resp.Rcode = RcodeSuccess

\* C9 as stated: PrepareResponse returns NameError only when the queried
\* name itself has no entry in the store.
C9_NameErrorOnlyForQueriedName ==
    IsResolve /\ last.resp.Rcode = RcodeNameError =>
        Stored(QName) \notin DOMAIN ChainStore

\* C9, amended: PrepareResponse returns NameError only when the name the
\* chase arrives at has no entry: the queried name itself or the target of
\* the last alias followed.  Whenever that name has an entry, the response
\* code is not NameError.
C9_NameErrorOnlyIfChaseEndsAbsent ==
    IsResolve /\ last.resp.Rcode = RcodeNameError =>
        ChaseOf(ChainStore, QName, QType).end \notin DOMAIN ChainStore

C9_Witness ==
    /\ IsResolve
    /\ last.resp.Rcode = RcodeNameError
    /\ Stored(QName) \in DOMAIN ChainStore
    /\ Len(ChaseOf(ChainStore, QName, QType).path) >= 2

\* C10: a name whose entry holds only records of one address type, and no
\* alias, resolves for any other type to Success with an empty answer.
C10_OtherTypeIsEmptySuccess ==
    IsResolve /\ Stored(QName) \in DOMAIN Store1 =>
        \A t \in {TypeA, TypeAAAA} :
            /\ \A i \in 1..Len(Store1[Stored(QName)]) :
                  Store1[Stored(QName)][i].Hdr.Rrtype = t
            /\ QType # t
            => last.resp = [Rcode |-> RcodeSuccess, Answer |-> <<>>]

C10_Witness ==
    /\ IsResolve
    /\ Stored(QName) \in DOMAIN Store1
    /\ Payloads(Store1[Stored(QName)])
          = <<[type |-> TypeA, data |-> "1.1.1.1"], [type |-> TypeA, data |-> "8.8.8.8"]>>
    /\ QType = TypeAAAA
    /\ last.resp = [Rcode |-> RcodeSuccess, Answer |-> <<>>]

-----------------------------------------------------------------------------
(* SpecLife: a store from empty on, under AddNetipAddr, AddCNAME, Remove   *)
(* and Clone, on the original and on its clone.                            *)

MaxRecsLife == 2      \* records held by one store in SpecLife

LifeNames == {NameOf(1), AltNameOf(1), NameOf(2)}

NextLifeAddNetipAddr ==
    \E c \in Handles, name \in LifeNames :
        /\ Idle
        /\ c \in DOMAIN rrs
        /\ Total(c) < MaxRecsLife
        /\ AddNetipAddr(c, name, "1.1.1.1")
        /\ UNCHANGED <<log, procs, objs>>

NextLifeAddCNAME ==
    \E c \in Handles, name \in LifeNames :
        /\ Idle
        /\ c \in DOMAIN rrs
        /\ Total(c) < MaxRecsLife
        /\ AddCNAME(c, name, AltNameOf(1))
        /\ UNCHANGED <<log, procs, objs>>

NextLifeRemove ==
    \E c \in Handles, name \in LifeNames :
        Idle /\ Remove(c, name) /\ UNCHANGED <<log, procs, objs>>

NextLifeClone ==
    \E c \in Handles, out \in Handles :
        Idle /\ Clone(c, out) /\ UNCHANGED <<log, procs, objs>>

NextLife ==
    \/ NextLifeAddNetipAddr
    \/ NextLifeAddCNAME
    \/ NextLifeRemove
    \/ NextLifeClone
    \/ Discard

SpecLife == Init /\ [][NextLife]_vars

\* C16: in every state reachable from the empty store by AddNetipAddr,
\* AddCNAME, Remove and Clone, on the original and on clones, every name that
\* is a key of a store has at least one record.
C16_NoEmptyRecordSet ==
    \A c \in DOMAIN rrs :
        \A k \in DOMAIN rrs[c] : Len(Content(rrs, arrays, c)[k]) >= 1

C16_Witness ==
    /\ DOMAIN rrs = Handles
    /\ DOMAIN rrs["config1"] = {NameOf(2)}
    /\ DOMAIN rrs["config2"] = {NameOf(1)}
    /\ Len(Content(rrs, arrays, "config2")[NameOf(1)]) = 2
    /\ \E i \in 1..2 : Content(rrs, arrays, "config2")[NameOf(1)][i].Hdr.Rrtype = TypeCNAME

-----------------------------------------------------------------------------
(* Frame of the Add operations (Spec).                                     *)

\* the additions logged for owner o
LoggedFor(L, o) == IF o \in DOMAIN L THEN L[o] ELSE <<>>

\* the records a store holds for a name, none when the name is no key
RecordsAt(store, key) == IF key \in DOMAIN store THEN store[key] ELSE <<>>

\* C20: an AddNetipAddr or AddCNAME step appends one record, with the
\* canonical name as owner, class Internet and the default TTL, at the end of
\* the entry of the canonical name, creating the entry when absent; the
\* records already there keep their place and the entries of all other names
\* stay as they are.  Lookup returns the records of a type in the order they
\* were added.
C20_AddAppendsAtEnd ==
    [][/\ \A o \in 1..NumLabels :
             Len(LoggedFor(Log1', o)) > Len(LoggedFor(Log1, o)) =>
                LET key == NameOf(o)
                    before == RecordsAt(Store1, key)
                    after == Store1'
                    added == Log1'[o][Len(Log1'[o])]
                IN /\ DOMAIN after = DOMAIN Store1 \cup {key}
                   /\ Len(after[key]) = Len(before) + 1
                   /\ SubSeq(after[key], 1, Len(before)) = before
                   /\ Payload(after[key][Len(before) + 1]) = added
                   /\ after[key][Len(before) + 1].Hdr =
                         [Name |-> key, Rrtype |-> added.type,
                          Class |-> ClassINET, Ttl |-> handlerDefaultTTL]
                   /\ \A k \in DOMAIN Store1 \ {key} : after[k] = Store1[k]
       /\ last'.op = "Lookup" =>
             Payloads(last'.records)
                = AddedOfType(LoggedFor(Log1', OwnerOf(last'.name)), last'.qtype)]_vars

C20_Witness ==
    /\ last = NoCall
    /\ \E o \in 1..NumLabels :
          /\ Len(LoggedFor(Log1, o)) = 2
          /\ Log1[o][1].type = TypeCNAME
          /\ Log1[o][2].type = TypeA
          /\ Payloads(RecordsAt(Store1, NameOf(o))) = Log1[o]

-----------------------------------------------------------------------------
(* SpecResolve: a Handler goroutine running PrepareResponse one Lookup at  *)
(* a time (each Lookup is one critical section of the store's mutex),      *)
(* while the test goroutine goes on adding and removing records.           *)

MaxRecsResolve == 2   \* records held by the store in SpecResolve
MaxRaces == 1         \* mutations of the store while one call is running

\* Lookup's loop as it acts on the heap: filtered starts as the nil slice
\* and grows by append into arrays of its own, the n-th at address local(n)
\* F applied to the value of x, x being worked out once
With(x, F(_)) == CHOOSE r \in {F(v) : v \in {x}} : TRUE

RECURSIVE FilterArrays(_, _, _, _, _)
FilterArrays(H, records, qtype, filtered, n) ==
    IF records = <<>> THEN H
    ELSE IF qtype = Head(records).Hdr.Rrtype
    THEN With(AppendOne(H, filtered, Head(records), <<"filtered", n>>),
              LAMBDA ap : FilterArrays(ap.arrays, Tail(records), qtype, ap.slice, n + 1))
    ELSE FilterArrays(H, Tail(records), qtype, filtered, n)

\* Lookup that filters in place: filtered := records[:0]
LookupArraysInPlace(R, H, c, name, qtype) ==
    LET key == CanonicalName(name)
    IN IF key \in DOMAIN R[c]
       THEN With(FilterArrays(H, Elems(H, R[c][key]), qtype,
                              [arr |-> R[c][key].arr, len |-> 0], 0),
                 LAMBDA H2 : Collect(R, H2))
       ELSE H

\* the arrays of the stores after Lookup(name, qtype) has returned
LookupArrays(R, H, c, name, qtype) ==
    LET key == CanonicalName(name)
    IN IF key \in DOMAIN R[c]
       THEN With(FilterArrays(H, Elems(H, R[c][key]), qtype, NilSlice, 0),
                 LAMBDA H2 : Collect(R, H2))
       ELSE H

\* step 1 and 2 of PrepareResponse with the class test left out
RefusesIgnoringClass(query) == query.Response \/ Len(query.Question) # 1

\* steps 1 and 2 of PrepareResponse: the query is refused
Refuses(query) ==
    IF query.Response \/ Len(query.Question) # 1 THEN TRUE
    ELSE query.Question[1].Qclass # ClassINET

\* for {}: a loop without a bound
LoopNeverOver(iter) == FALSE

\* for range maxCNAMEChain: the loop is over after iter iterations
LoopOver(iter) == iter >= maxCNAMEChain

\* NewHandler(config): the handler and the locals of its goroutine
NewHandler(config) ==
    [pc |-> "idle", cfg |-> config, op |-> "none", query |-> Msg(FALSE, <<>>),
     qName |-> <<>>, qType |-> "", cnames |-> <<>>, iter |-> 0, lookups |-> 0,
     resp |-> [Rcode |-> "none"]]

InitResolve ==
    /\ rrs = [c \in {"config1"} |-> NewHandlerConfig]
    /\ arrays = <<>>
    /\ last = NoCall
    /\ log = [races |-> 0]
    /\ procs = [h |-> NewHandler("config1")]
    /\ objs = <<>>

\* PrepareResponse is called: steps 1 and 2, and the locals of step 3
EnterPrepareResponse(query) ==
    /\ procs.h.pc = "idle"
    /\ procs' = [procs EXCEPT !.h =
          IF Refuses(query)
          THEN [@ EXCEPT !.pc = "return", !.op = "PrepareResponse", !.query = query,
                         !.resp = Reply(RcodeRefused, <<>>)]
          ELSE [@ EXCEPT !.pc = "loop", !.op = "PrepareResponse", !.query = query,
                         !.qName = query.Question[1].Name,
                         !.qType = query.Question[1].Qtype]]
    /\ UNCHANGED <<rrs, arrays, last, objs>>

\* one iteration up to its first Lookup (3.1, 3.2, 3.4), or the end of the
\* loop (3.5)
LoopLookup ==
    /\ procs.h.pc = "loop"
    /\ \E h \in {procs.h} : \E l \in {Lookup(rrs, arrays, h.cfg, h.qName, h.qType)} :
       /\ IF LoopOver(h.iter)
          THEN /\ procs' = [procs EXCEPT !.h.pc = "return", !.h.resp = ChainTooLong]
               /\ UNCHANGED arrays
          ELSE /\ procs' = [procs EXCEPT !.h =
                     LET g == [h EXCEPT !.iter = @ + 1, !.lookups = @ + 1]
                     IN IF l.found /\ Len(l.records) > 0
                        THEN [g EXCEPT !.pc = "return",
                                       !.resp = Reply(RcodeSuccess, Answer(h.cnames, l.records))]
                        ELSE IF l.found /\ Len(l.records) <= 0
                        THEN [g EXCEPT !.pc = "cname"]
                        ELSE [g EXCEPT !.pc = "return", !.resp = NoSuchName]]
               /\ arrays' = LookupArrays(rrs, arrays, h.cfg, h.qName, h.qType)
       /\ UNCHANGED <<rrs, last, objs>>

\* the second Lookup of an iteration (3.3.1, 3.3.2, 3.3.3)
CnameLookup ==
    /\ procs.h.pc = "cname"
    /\ \E h \in {procs.h} : \E l \in {Lookup(rrs, arrays, h.cfg, h.qName, TypeCNAME)} :
       /\ procs' = [procs EXCEPT !.h =
             LET g == [h EXCEPT !.lookups = @ + 1]
             IN IF l.found /\ Len(l.records) >= 1
                THEN [g EXCEPT !.pc = "loop", !.cnames = @ \o l.records,
                               !.qName = NextName(l.records)]
                ELSE [g EXCEPT !.pc = "return", !.resp = NoSuchType]]
       /\ arrays' = LookupArrays(rrs, arrays, h.cfg, h.qName, TypeCNAME)
       /\ UNCHANGED <<rrs, last, objs>>

\* the goroutine calls Lookup of its store directly
DirectLookup(name, qtype) ==
    LET h == procs.h
    IN /\ h.pc = "idle"
       /\ procs' = [procs EXCEPT !.h =
             [h EXCEPT !.pc = "return", !.op = "Lookup", !.qName = name, !.qType = qtype,
                       !.lookups = 1,
                       !.resp = Lookup(rrs, arrays, h.cfg, name, qtype)]]
       /\ arrays' = LookupArrays(rrs, arrays, h.cfg, name, qtype)
       /\ UNCHANGED <<rrs, last, objs>>

\* the call returns and the goroutine is ready for the next one
ReturnResponse ==
    /\ procs.h.pc = "return"
    /\ procs' = [procs EXCEPT !.h = NewHandler(procs.h.cfg)]
    /\ UNCHANGED <<rrs, arrays, last, objs>>

\* the test goroutine may mutate the store now
MayMutate == procs.h.pc = "idle" \/ log.races < MaxRaces

\* history: one more mutation during the running call, none when idle
Raced == [races |-> IF procs.h.pc = "idle" THEN 0 ELSE log.races + 1]

ResolveNames == {NameOf(1), AltNameOf(2)}

\* the aliases the test goroutine adds: a cycle of two names and a self-alias
ResolveAliases ==
    {<<NameOf(1), AltNameOf(2)>>, <<AltNameOf(2), NameOf(1)>>, <<NameOf(1), NameOf(1)>>}

ResolveQueries == {Msg(FALSE, <<Question(AltNameOf(1), TypeA, ClassINET)>>)} \cup Malformed

NextResolveEnter ==
    \E query \in ResolveQueries : EnterPrepareResponse(query) /\ log' = [races |-> 0]

NextResolveLoop == UNCHANGED log /\ LoopLookup

NextResolveCname == UNCHANGED log /\ CnameLookup

NextResolveDirect == DirectLookup(AltNameOf(2), TypeA) /\ log' = [races |-> 0]

NextResolveReturn == ReturnResponse /\ UNCHANGED log

NextResolveAddNetipAddr ==
    \E name \in ResolveNames :
        /\ MayMutate
        /\ Total("config1") < MaxRecsResolve
        /\ AddNetipAddr("config1", name, "1.1.1.1")
        /\ log' = Raced
        /\ UNCHANGED <<procs, objs>>

NextResolveAddCNAME ==
    \E alias \in ResolveAliases :
        /\ MayMutate
        /\ Total("config1") < MaxRecsResolve
        /\ AddCNAME("config1", alias[1], alias[2])
        /\ log' = Raced
        /\ UNCHANGED <<procs, objs>>

NextResolveRemove ==
    \E name \in ResolveNames :
        /\ MayMutate
        /\ Remove("config1", name)
        /\ log' = Raced
        /\ UNCHANGED <<procs, objs>>

HandlerStep ==
    \/ NextResolveLoop
    \/ NextResolveCname

NextResolve ==
    \/ NextResolveEnter
    \/ NextResolveLoop
    \/ NextResolveCname
    \/ NextResolveDirect
    \/ NextResolveReturn
    \/ NextResolveAddNetipAddr
    \/ NextResolveAddCNAME
    \/ NextResolveRemove

SpecResolve == InitResolve /\ [][NextResolve]_vars

\* the goroutine of the handler is scheduled, and the mutex is handed to it
SpecResolveFair == SpecResolve /\ WF_vars(HandlerStep)

-----------------------------------------------------------------------------
(* Properties of the running handler (SpecResolve).                        *)

Running == procs.h.pc \in {"loop", "cname"}
Returned(op) == procs.h.pc = "return" /\ procs.h.op = op
StoreH == Content(rrs, arrays, procs.h.cfg)

\* C11: PrepareResponse returns Refused with an empty answer, whatever the
\* store holds and without any Lookup, when the query is flagged as a
\* response, or has no question or several, or its question is not of class
\* Internet.
C11_MalformedIsRefused ==
    Returned("PrepareResponse") /\ ~IsWellFormed(procs.h.query) =>
        /\ procs.h.resp = [Rcode |-> RcodeRefused, Answer |-> <<>>]
        /\ procs.h.lookups = 0
        /\ procs.h.iter = 0

C11_Witness ==
    /\ Returned("PrepareResponse")
    /\ Len(procs.h.query.Question) = 1
    /\ procs.h.query.Question[1].Qclass = ClassCHAOS
    /\ CanonicalName(procs.h.query.Question[1].Name) \in DOMAIN StoreH
    /\ procs.h.resp.Rcode = RcodeRefused

\* C15: PrepareResponse always terminates, for every store and every query
\* and also while the store is being mutated: it runs at most 10 iterations
\* and at most 20 Lookups, and then returns one response whose code is
\* Success, NameError, ServerFailure or Refused.
C15_AlwaysTerminates ==
    /\ [](/\ procs.h.iter <= 10
          /\ procs.h.lookups <= 20
          /\ Returned("PrepareResponse") =>
                procs.h.resp.Rcode \in
                    {RcodeSuccess, RcodeNameError, RcodeServerFailure, RcodeRefused})
    /\ Running ~> Returned("PrepareResponse")

C15_Witness ==
    /\ Returned("PrepareResponse")
    /\ procs.h.iter = 10
    /\ procs.h.lookups = 20
    /\ log.races = 1
    /\ \E i, j \in 1..Len(procs.h.cnames) : procs.h.cnames[i] # procs.h.cnames[j]
    /\ procs.h.resp.Rcode = RcodeServerFailure

\* this step is an AddNetipAddr, an AddCNAME or a Remove on store c
IsMutation(c) ==
    \/ \E name \in ResolveNames : AddNetipAddr(c, name, "1.1.1.1")
    \/ \E alias \in ResolveAliases : AddCNAME(c, alias[1], alias[2])
    \/ \E name \in ResolveNames : Remove(c, name)

\* C19: Lookup and PrepareResponse are read-only: no step of theirs changes
\* the names, the records or the order of the records of the store, and the
\* handler keeps the store it was made with; the store changes only in steps
\* of AddNetipAddr, AddCNAME and Remove.
C19_ReadOnly ==
    [][/\ procs' # procs =>
             /\ rrs' = rrs
             /\ Content(rrs', arrays', procs.h.cfg) = StoreH
       /\ procs'.h.cfg = procs.h.cfg
       /\ Content(rrs', arrays', procs.h.cfg) # StoreH => IsMutation(procs.h.cfg)]_vars

C19_Witness ==
    /\ Returned("PrepareResponse")
    /\ procs.h.lookups = 3
    /\ procs.h.resp.Rcode = RcodeSuccess
    /\ Len(procs.h.resp.Answer) = 2
    /\ procs.h.resp.Answer[1].Hdr.Rrtype = TypeCNAME
    /\ procs.h.resp.Answer[2].Hdr.Rrtype = TypeA
    /\ DOMAIN StoreH = {NameOf(1), NameOf(2)}

-----------------------------------------------------------------------------
(* SpecConc and SpecOwn: goroutines calling AddNetipAddr, Remove, Lookup   *)
(* and Clone on one store, each call being the statements of its method:   *)
(* Lock, the reads and writes of the map and of the slices, Unlock.        *)

MaxCalls == 4         \* calls made by all goroutines together

Threads == {"t1", "t2"}

\* the target of the aliases the goroutines add
AliasTarget == AltNameOf(1)

\* the type a Lookup is for: the address type, or the alias type in the
\* second Lookup of an iteration of PrepareResponse
LookupType(op) == IF op = "LookupCNAME" THEN TypeCNAME ELSE TypeA

\* the address a goroutine adds and the name it owns
AddrOf(t) == IF t = "t1" THEN "1.1.1.1" ELSE "8.8.8.8"
OwnName(t) == IF t = "t1" THEN AltNameOf(1) ELSE NameOf(2)

\* a goroutine that gets the mutex whoever holds it
CanLockAlways(mu) == TRUE

\* c.mu.Lock() returns only when nobody holds the mutex
CanLock(mu) == mu = "free"

Ready == [pc |-> "idle", op |-> "none", name |-> <<>>, records |-> NilSlice,
          found |-> FALSE, filtered |-> <<>>]

\* the goroutines between the return of Lock and the return of Unlock
Holding(t) == procs[t].pc \in {"read", "write", "copy", "unlock"}

InFlight(t) == procs[t].pc # "idle"

\* the heap H2 together with the arrays that the slice read by another
\* goroutine still refers to: the collector keeps what a local refers to
RootsOf(t) ==
    {procs[u].records.arr : u \in {v \in Threads \ {t} : procs[v].pc = "write"}}
        \cap DOMAIN arrays

Rooted(t, H2) ==
    [a \in DOMAIN H2 \cup RootsOf(t) |-> IF a \in DOMAIN H2 THEN H2[a] ELSE arrays[a]]

\* the address the allocator hands out to t for the entry of key: one that
\* no other slice, of the store or of a goroutine, refers to
FreshRooted(t, key) ==
    LET used == RefsExcept(rrs, "config1", key) \cup RootsOf(t)
    IN <<"config1", key, CHOOSE n \in 0..(Cardinality(Threads) + 1) :
                            /\ <<"config1", key, n>> \notin used
                            /\ \A m \in 0..(n - 1) : <<"config1", key, m>> \in used>>

\* a call of op on name: the goroutine arrives at c.mu.Lock()
Call(t, op, name) ==
    /\ procs[t].pc = "idle"
    /\ op = "Clone" => /\ "config2" \notin DOMAIN rrs
                       /\ \A u \in Threads : ~(InFlight(u) /\ procs[u].op = "Clone")
    /\ procs' = [procs EXCEPT ![t] = [Ready EXCEPT !.pc = "lock", !.op = op, !.name = name]]
    /\ UNCHANGED <<rrs, arrays, last, objs>>

\* c.mu.Lock()
Acquire(t) ==
    /\ procs[t].pc = "lock"
    /\ CanLock(objs.mu)
    /\ objs' = [objs EXCEPT !.mu = t]
    /\ procs' = [procs EXCEPT ![t].pc = "read"]
    /\ UNCHANGED <<rrs, arrays, last>>

\* the first statement under the mutex: the map is read (AddNetipAddr,
\* Lookup), the key is deleted (Remove), the new store is made (Clone)
ReadMap(t) ==
    LET p == procs[t]
        key == CanonicalName(p.name)
        found == key \in DOMAIN rrs["config1"]
        records == IF found THEN rrs["config1"][key] ELSE NilSlice
    IN /\ p.pc = "read"
       /\ IF p.op = "Remove"
          THEN LET st == StoreRemove(rrs, arrays, "config1", p.name)
               IN /\ rrs' = st.rrs
                  /\ arrays' = Rooted(t, st.arrays)
                  /\ procs' = [procs EXCEPT ![t].pc = "unlock"]
          ELSE IF p.op = "Clone"
          THEN /\ rrs' = ("config2" :> NewHandlerConfig) @@ rrs
               /\ procs' = [procs EXCEPT ![t].pc = "copy"]
               /\ UNCHANGED arrays
          ELSE /\ procs' = [procs EXCEPT ![t] =
                     [p EXCEPT !.pc = "write", !.records = records, !.found = found]]
               /\ UNCHANGED <<rrs, arrays>>
       /\ UNCHANGED <<last, objs>>

\* the second statement: append and store the slice (AddNetipAddr), or the
\* loop over the records read (Lookup)
WriteBack(t) ==
    LET p == procs[t]
        key == CanonicalName(p.name)
        record == IF p.op = "AddCNAME"
                  THEN NewCNAME(key, CanonicalName(AliasTarget))
                  ELSE NewA(key, AddrOf(t))
        ap == AppendOne(arrays, p.records, record, FreshRooted(t, key))
        R2 == [rrs EXCEPT !["config1"] = (key :> ap.slice) @@ rrs["config1"]]
    IN /\ p.pc = "write"
       /\ IF p.op \in {"AddNetipAddr", "AddCNAME"}
          THEN /\ rrs' = R2
               /\ arrays' = Rooted(t, Collect(R2, ap.arrays))
               /\ procs' = [procs EXCEPT ![t].pc = "unlock"]
          ELSE /\ procs' = [procs EXCEPT ![t] =
                     [p EXCEPT !.pc = "unlock",
                               !.filtered = FilterType(Elems(arrays, p.records),
                                                       LookupType(p.op), <<>>)]]
               /\ UNCHANGED <<rrs, arrays>>
       /\ UNCHANGED <<last, objs>>

\* one iteration of the loop of Clone: out.rrs[key] = a copy of value, in an
\* array of capacity len(value); after the last one the loop is left
CopyEntry(t) ==
    LET todo == DOMAIN rrs["config1"] \ DOMAIN rrs["config2"]
    IN /\ procs[t].pc = "copy"
       /\ IF todo = {}
          THEN /\ procs' = [procs EXCEPT ![t].pc = "unlock"]
               /\ UNCHANGED <<rrs, arrays>>
          ELSE \E key \in todo :
                  LET value == rrs["config1"][key]
                      a == FreshArr(rrs, "config2", key)
                  IN /\ rrs' = [rrs EXCEPT !["config2"] =
                                   (key :> [arr |-> a, len |-> value.len]) @@ @]
                     /\ arrays' = (a :> [elems |-> Elems(arrays, value), cap |-> value.len])
                                     @@ arrays
                     /\ UNCHANGED procs
       /\ UNCHANGED <<last, objs>>

\* a return that leaves the mutex as it is
UnlockForgotten(mu, t) == mu

\* c.mu.Unlock() by t
Unlock(mu, t) == IF mu = t THEN "free" ELSE mu

\* c.mu.Unlock() and the return
Release(t) ==
    /\ procs[t].pc = "unlock"
    /\ objs' = [objs EXCEPT !.mu = Unlock(@, t)]
    /\ procs' = [procs EXCEPT ![t].pc = "idle"]
    /\ UNCHANGED <<rrs, arrays, last>>

\* history of the calls: what each running call may have seen of the store
\* (seen), what each goroutine made of its own name before and after its
\* running call (own), the additions made to each name (added), whether a
\* Remove was ever called, the number of calls, and the clone as returned
StoreC == Content(rrs, arrays, "config1")

ApplyTo(records, t, op) ==
    IF op = "AddNetipAddr" THEN Append(records, [type |-> TypeA, data |-> AddrOf(t)])
    ELSE IF op = "Remove" THEN <<>>
    ELSE records

NoClone == [done |-> FALSE, content |-> <<>>]

InitConc ==
    /\ rrs = [c \in {"config1"} |-> NewHandlerConfig]
    /\ arrays = <<>>
    /\ last = NoCall
    /\ procs = [t \in Threads |-> Ready]
    /\ objs = [mu |-> "free"]
    /\ log = [seen |-> [t \in Threads |-> {}],
              own |-> [t \in Threads |-> [before |-> <<>>, after |-> <<>>]],
              added |-> [o \in 1..2 |-> <<>>],
              removed |-> FALSE,
              calls |-> 0,
              cloned |-> NoClone]

\* the history after a step that is no call and no return
Seen ==
    [log EXCEPT !.seen = [t \in Threads |->
        IF InFlight(t) THEN log.seen[t] \cup {StoreC'} ELSE {}]]

\* the history after the call of op on name by t
Called(t, op, name) ==
    [log EXCEPT
        !.seen[t] = {StoreC},
        !.own[t].after = ApplyTo(log.own[t].before, t, op),
        !.added[OwnerOf(name)] = IF op = "AddNetipAddr" THEN Append(@, AddrOf(t)) ELSE @,
        !.removed = @ \/ op = "Remove",
        !.calls = @ + 1]

NextAcquire == \E t \in Threads : Acquire(t) /\ log' = Seen

NextReadMap == \E t \in Threads : ReadMap(t) /\ log' = Seen

NextWriteBack == \E t \in Threads : WriteBack(t) /\ log' = Seen

NextCopyEntry == \E t \in Threads : CopyEntry(t) /\ log' = Seen

NextRelease ==
    \E t \in Threads :
        /\ Release(t)
        /\ log' = [log EXCEPT
              !.own[t].before = log.own[t].after,
              !.cloned = IF procs[t].op = "Clone"
                         THEN [done |-> TRUE, content |-> Content(rrs, arrays, "config2")]
                         ELSE @]

ConcOps == {"AddNetipAddr", "Remove", "Lookup", "Clone"}
OwnOps == {"AddNetipAddr", "Remove", "Lookup"}

NextConcCall ==
    \E t \in Threads, op \in ConcOps, name \in {AltNameOf(1), NameOf(2)} :
        /\ log.calls < MaxCalls
        /\ op = "Clone" => name = NameOf(2)
        /\ Call(t, op, name)
        /\ log' = Called(t, op, name)

NextOwnCall ==
    \E t \in Threads, op \in OwnOps :
        /\ log.calls < MaxCalls
        /\ Call(t, op, OwnName(t))
        /\ log' = Called(t, op, OwnName(t))

NextConc ==
    \/ NextConcCall
    \/ NextAcquire
    \/ NextReadMap
    \/ NextWriteBack
    \/ NextCopyEntry
    \/ NextRelease

NextOwn ==
    \/ NextOwnCall
    \/ NextAcquire
    \/ NextReadMap
    \/ NextWriteBack
    \/ NextRelease

\* every call on any name
SpecConc == InitConc /\ [][NextConc]_vars

\* every goroutine on its own name
SpecOwn == InitConc /\ [][NextOwn]_vars

(***************************************************************************)
(* Properties of the concurrent store                                      *)
(***************************************************************************)

\* what Lookup(name, TypeA) returns on a store whose content is S
LookupOn(S, name) ==
    [found |-> Stored(name) \in DOMAIN S,
     filtered |-> OfType(RecordsAt(S, Stored(name)), TypeA)]

CountOf(seq, x) == Cardinality({i \in DOMAIN seq : seq[i] = x})

AllReturned == \A t \in Threads : ~InFlight(t)

\* C12: each operation takes effect atomically under the one mutex of the
\* store: at most one goroutine is between Lock and Unlock; what a Lookup
\* is about to return is the lookup of its name on the whole content the
\* store had at one instant of the call, so on the content entirely before
\* or entirely after each concurrent Add or Remove; and once every call has
\* returned, with no Remove called, every name holds each address as many
\* times as it was added to it by any goroutine (no lost update).
C12_AtomicUnderMutex ==
    /\ Cardinality({t \in Threads : Holding(t)}) <= 1
    /\ \A t \in Threads : Holding(t) => objs.mu = t
    /\ \A t \in Threads :
          (procs[t].pc = "unlock" /\ procs[t].op = "Lookup") =>
             \E S \in log.seen[t] :
                 LookupOn(S, procs[t].name) =
                    [found |-> procs[t].found, filtered |-> procs[t].filtered]
    /\ (AllReturned /\ ~log.removed) =>
          \A o \in 1..2 : \A t \in Threads :
              CountOf(Payloads(RecordsAt(StoreC, NameOf(o))),
                      [type |-> TypeA, data |-> AddrOf(t)])
                 = CountOf(log.added[o], AddrOf(t))

\* a Lookup that found its name holds the mutex after the store changed
\* during its call, while the other goroutine waits in an Add to that name
C12_Witness ==
    /\ procs["t1"].pc = "unlock"
    /\ procs["t1"].op = "Lookup"
    /\ procs["t1"].found
    /\ Len(procs["t1"].filtered) = 1
    /\ Cardinality(log.seen["t1"]) >= 2
    /\ procs["t2"].pc = "lock"
    /\ procs["t2"].op = "AddNetipAddr"
    /\ Stored(procs["t2"].name) = Stored(procs["t1"].name)

\* the records of the name of t, as kept by the store
OwnRecords(t) == Payloads(RecordsAt(StoreC, Stored(OwnName(t))))

\* C13: with every goroutine calling AddNetipAddr, Remove and Lookup on its
\* own name, the record set of each name is in every state what the
\* operations of its own goroutine made of it, in their order: what they
\* had made before the running call or what the running call makes of that,
\* and what they had made when no call is running; a Lookup returns it.
C13_OwnNameUntouched ==
    \A t \in Threads :
        /\ OwnRecords(t) \in {log.own[t].before, log.own[t].after}
        /\ ~InFlight(t) => OwnRecords(t) = log.own[t].before
        /\ (procs[t].pc = "unlock" /\ procs[t].op = "Lookup") =>
              /\ Payloads(procs[t].filtered) = log.own[t].before
              /\ procs[t].found = (log.own[t].before # <<>>)

\* t1 has removed its name, that held a record, and holds the mutex, while
\* t2 waits in an Add to its own name, that holds the record t2 added
C13_Witness ==
    /\ procs["t1"].pc = "unlock"
    /\ procs["t1"].op = "Remove"
    /\ log.own["t1"].before # <<>>
    /\ OwnRecords("t1") = <<>>
    /\ procs["t2"].pc = "lock"
    /\ procs["t2"].op = "AddNetipAddr"
    /\ OwnRecords("t2") = <<[type |-> TypeA, data |-> AddrOf("t2")]>>

\* C14: the store a concurrent Clone is about to return has the whole
\* content the original had at one instant between the call and the return
\* of Clone, and once Clone returned, the content of the clone stays what
\* was returned, whatever is done to the original.
C14_CloneIsSnapshot ==
    /\ \A t \in Threads :
          (procs[t].pc = "unlock" /\ procs[t].op = "Clone") =>
             Content(rrs, arrays, "config2") \in log.seen[t]
    /\ log.cloned.done => Content(rrs, arrays, "config2") = log.cloned.content

\* Clone returned a store with a record while a call was waiting for the
\* mutex, and the original was changed after that
C14_Witness ==
    /\ log.cloned.done
    /\ DOMAIN log.cloned.content # {}
    /\ AllReturned
    /\ StoreC # log.cloned.content
    /\ log.calls >= 3

(***************************************************************************)
(* SpecHTTPS: the DNS-over-HTTPS adapter (HTTPSHandler.ServeHTTP) in front *)
(* of a handler whose store is filled and emptied between the requests.    *)
(***************************************************************************)

MaxRecsHTTPS == 2     \* records in the store behind the HTTPS adapter

DNSMessage == "application/dns-message"

\* a name with an empty label, which CanonicalName keeps and Pack rejects
BadName == <<"a", ".", ".">>

\* packDomainName: no leading dot but for the root, no two dots in a row
Packable(name) ==
    /\ IsFqdn(name)
    /\ (name[1] = "." => Len(name) = 1)
    /\ \A i \in 1..(Len(name) - 1) : ~(name[i] = "." /\ name[i + 1] = ".")

RECURSIVE Flatten(_)
Flatten(groups) ==
    IF groups = <<>> THEN <<>> ELSE Head(groups) \o Flatten(Tail(groups))

\* query.Pack(): the header, then name, type and class of each question
PackQuery(query) ==
    <<[QR |-> query.Response, RCODE |-> RcodeSuccess,
       QDCOUNT |-> Len(query.Question), ANCOUNT |-> 0]>>
    \o Flatten([i \in 1..Len(query.Question) |->
                  <<query.Question[i].Name, query.Question[i].Qtype,
                    query.Question[i].Qclass>>])

\* query.Unpack(rawQuery): an error when the header or a question is cut
UnpackQuery(raw) ==
    IF Len(raw) = 0 \/ Len(raw) < 1 + 3 * raw[1].QDCOUNT
    THEN [ok |-> FALSE, msg |-> Msg(FALSE, <<>>)]
    ELSE [ok |-> TRUE,
          msg |-> Msg(raw[1].QR,
                      [i \in 1..raw[1].QDCOUNT |->
                          Question(raw[3 * i - 1], raw[3 * i], raw[3 * i + 1])])]

Rdata(rr) ==
    IF rr.Hdr.Rrtype = TypeA THEN rr.A
    ELSE IF rr.Hdr.Rrtype = TypeAAAA THEN rr.AAAA
    ELSE rr.Target

\* resp.Pack() of a response that takes every record to be packable
PackResponseAnyName(resp) ==
    [ok |-> TRUE,
     raw |-> <<[QR |-> TRUE, RCODE |-> resp.Rcode, QDCOUNT |-> 0,
                ANCOUNT |-> Len(resp.Answer)]>>
             \o Flatten([i \in 1..Len(resp.Answer) |->
                           <<resp.Answer[i].Hdr, Rdata(resp.Answer[i])>>])]

\* resp.Pack(): an error when a name of the answer cannot be packed
PackResponse(resp) ==
    IF \E i \in 1..Len(resp.Answer) :
          \/ ~Packable(resp.Answer[i].Hdr.Name)
          \/ resp.Answer[i].Hdr.Rrtype = TypeCNAME /\ ~Packable(resp.Answer[i].Target)
    THEN [ok |-> FALSE, raw |-> <<>>]
    ELSE PackResponseAnyName(resp)

\* what the client decodes from the body of the HTTP response
UnpackResponse(raw) ==
    Reply(raw[1].RCODE,
          [i \in 1..raw[1].ANCOUNT |->
              LET hdr == raw[2 * i]
                  rdata == raw[2 * i + 1]
              IN IF hdr.Rrtype = TypeA THEN [Hdr |-> hdr, A |-> rdata]
                 ELSE IF hdr.Rrtype = TypeAAAA THEN [Hdr |-> hdr, AAAA |-> rdata]
                 ELSE [Hdr |-> hdr, Target |-> rdata]])

\* textproto.CanonicalMIMEHeaderKey on the keys used here
CanonicalMIMEHeaderKey(key) ==
    IF key = "content-type" THEN "Content-Type"
    ELSE IF key = "accept" THEN "Accept"
    ELSE key

\* http.Header.Get: the first value of the canonical key, or ""
HeaderGet(header, key) ==
    LET k == CanonicalMIMEHeaderKey(key)
    IN IF k \in DOMAIN header THEN header[k][1] ELSE ""

\* http.ResponseWriter: nothing written yet, WriteHeader, Write
NewResponseWriter == [status |-> 0, header |-> <<>>, body |-> <<>>, writes |-> 0]

WriteHeader(w, code) == IF w.status = 0 THEN [w EXCEPT !.status = code] ELSE w

Write(w, data) ==
    [WriteHeader(w, 200) EXCEPT !.body = @ \o data, !.writes = @ + 1]

\* runtimex.Assert(req.Method == "POST")
MethodOK(req) == req.Method = "POST"

\* an adapter that takes a request without content-type
ContentTypeOKOrMissing(req) == HeaderGet(req.Header, "content-type") \in {DNSMessage, ""}

\* runtimex.Assert(req.Header.Get("content-type") == "application/dns-message")
ContentTypeOK(req) == HeaderGet(req.Header, "content-type") = DNSMessage

\* the deferred function after a panic
Recovered(w, prepared) == [w |-> WriteHeader(w, 400), prepared |-> prepared]

\* ServeHTTP on a fresh ResponseWriter: the writer as the handler leaves
\* it, and the number of calls of PrepareResponse
Served(R, H, req) ==
    LET w == NewResponseWriter
        unpacked == UnpackQuery(req.Body.data)
        resp == PrepareResponse(R, H, "config1", unpacked.msg)
        packed == PackResponse(resp)
    IN IF ~MethodOK(req) THEN Recovered(w, 0)
       ELSE IF ~ContentTypeOK(req) THEN Recovered(w, 0)
       ELSE IF req.Body.err THEN Recovered(w, 0)
       ELSE IF ~unpacked.ok THEN Recovered(w, 0)
       ELSE IF ~packed.ok THEN Recovered(w, 1)
       ELSE [w |-> Write([w EXCEPT !.header = ("Content-Type" :> <<DNSMessage>>)],
                         packed.raw),
             prepared |-> 1]

ServeHTTP(req) ==
    /\ last' = [op |-> "ServeHTTP", req |-> req, res |-> Served(rrs, arrays, req)]
    /\ UNCHANGED <<rrs, arrays>>

HTTPSMethods == {"POST", "GET", "post"}

HTTPSHeaders ==
    {<<>>,
     "Content-Type" :> <<DNSMessage>>,
     "Content-Type" :> <<"application/dns-message; charset=utf-8">>,
     "Content-Type" :> <<"text/plain", DNSMessage>>,
     "Accept" :> <<DNSMessage>>}

HTTPSQueries ==
    {Msg(FALSE, <<Question(NameOf(1), TypeA, ClassINET)>>),
     Msg(FALSE, <<Question(NameOf(2), TypeA, ClassINET)>>),
     Msg(FALSE, <<Question(NameOf(2), TypeCNAME, ClassINET)>>),
     Msg(TRUE, <<Question(NameOf(1), TypeA, ClassINET)>>)}

\* bodies: the packed queries, one that cannot be read to its end, an empty
\* one and one cut in its question
HTTPSBodies ==
    {[data |-> PackQuery(q), err |-> FALSE] : q \in HTTPSQueries}
    \cup {[data |-> PackQuery(Msg(FALSE, <<Question(NameOf(1), TypeA, ClassINET)>>)),
           err |-> TRUE],
          [data |-> <<>>, err |-> FALSE],
          [data |-> <<[QR |-> FALSE, RCODE |-> RcodeSuccess, QDCOUNT |-> 1, ANCOUNT |-> 0],
                      NameOf(1)>>,
           err |-> FALSE]}

NextHTTPSServe ==
    \E method \in HTTPSMethods, header \in HTTPSHeaders, body \in HTTPSBodies :
        /\ Idle
        /\ ServeHTTP([Method |-> method, Header |-> header, Body |-> body])
        /\ UNCHANGED <<log, procs, objs>>

NextHTTPSAddNetipAddr ==
    /\ Idle
    /\ Total("config1") < MaxRecsHTTPS
    /\ AddNetipAddr("config1", AltNameOf(1), "1.1.1.1")
    /\ UNCHANGED <<log, procs, objs>>

NextHTTPSAddCNAME ==
    \E cname \in {AltNameOf(1), BadName} :
        /\ Idle
        /\ Total("config1") < MaxRecsHTTPS
        /\ AddCNAME("config1", NameOf(2), cname)
        /\ UNCHANGED <<log, procs, objs>>

NextHTTPSRemove ==
    \E name \in {NameOf(1), NameOf(2)} :
        Idle /\ Remove("config1", name) /\ UNCHANGED <<log, procs, objs>>

NextHTTPS ==
    \/ NextHTTPSServe
    \/ NextHTTPSAddNetipAddr
    \/ NextHTTPSAddCNAME
    \/ NextHTTPSRemove
    \/ Discard

SpecHTTPS == Init /\ [][NextHTTPS]_vars

\* C17: a request whose method is not POST, or whose first content-type
\* value is not exactly application/dns-message (a missing header
\* included), is answered with status 400, an empty body and no call of
\* PrepareResponse; PrepareResponse is called at most once, and only for a
\* POST with that content type whose body is read and decodes; a 200 answer
\* is written once, has that content type, and decodes to the response of
\* PrepareResponse to the decoded query.
C17_BadRequestWithoutCore ==
    last.op = "ServeHTTP" =>
        LET req == last.req
            w == last.res.w
            prepared == last.res.prepared
            exact == /\ "Content-Type" \in DOMAIN req.Header
                     /\ req.Header["Content-Type"][1] = "application/dns-message"
            decodable == \E q \in HTTPSQueries : req.Body.data = PackQuery(q)
        IN /\ w.status \in {200, 400}
           /\ (req.Method # "POST" \/ ~exact) =>
                 (w.status = 400 /\ prepared = 0 /\ w.body = <<>> /\ w.writes = 0)
           /\ prepared \in {0, 1}
           /\ prepared = 1 =>
                 (req.Method = "POST" /\ exact /\ ~req.Body.err /\ decodable)
           /\ (req.Method = "POST" /\ exact /\ ~req.Body.err /\ decodable) =>
                 prepared = 1
           /\ w.status = 200 =>
                 /\ prepared = 1
                 /\ w.writes = 1
                 /\ w.header = ("Content-Type" :> <<"application/dns-message">>)
                 /\ \A q \in HTTPSQueries :
                       req.Body.data = PackQuery(q) =>
                          UnpackResponse(w.body) = PrepareResponse(rrs, arrays, "config1", q)

\* a POST without content-type, with the packed query for a name that has
\* a record, was answered 400 without a call of PrepareResponse
C17_Witness ==
    /\ last.op = "ServeHTTP"
    /\ last.req.Method = "POST"
    /\ last.req.Header = <<>>
    /\ last.req.Body = [data |-> PackQuery(Msg(FALSE, <<Question(NameOf(1), TypeA, ClassINET)>>)),
                        err |-> FALSE]
    /\ NameOf(1) \in DOMAIN rrs["config1"]
    /\ last.res.w.status = 400
    /\ last.res.prepared = 0

(***************************************************************************)
(* SpecServer: the UDP, TCP and TLS servers.  MustNewXServer starts a      *)
(* goroutine that runs srv.srv.ActivateAndServe() and then closes done;    *)
(* Close calls srv.srv.Shutdown(), panics on its error, and receives from  *)
(* done.  dns.Server is modelled by its started flag, its socket, its      *)
(* shutdown channel and the WaitGroup of its handler goroutines.           *)
(***************************************************************************)

MaxRequests == 2      \* queries read by one server
MaxCloses == 2        \* calls of Close on one server

Kinds == {"udp", "tcp", "tls"}

\* a Close that does not receive from done
DoneClosedOrNot(server) == TRUE

\* <-srv.done returns once done is closed
DoneClosed(server) == server.done >= 1

\* the state MustNewXServer returns: the socket is open, the goroutine is
\* spawned and has not run yet
InitServer ==
    /\ rrs = [c \in {"config1"} |-> NewHandlerConfig]
    /\ arrays = <<>>
    /\ last = NoCall
    /\ \E kind \in Kinds :
          objs = [kind |-> kind, started |-> FALSE, open |-> TRUE, deadline |-> FALSE,
                  shutdown |-> 0, done |-> 0, wg |-> 0]
    /\ procs = [serve |-> "spawned", closer |-> "idle",
                h |-> [i \in 1..MaxRequests |-> "none"]]
    /\ log = [requests |-> 0, writes |-> 0, closes |-> 0, returned |-> FALSE,
              closed |-> FALSE, writesAtClose |-> 0]

\* ActivateAndServe up to the serve loop: started is set under the lock
Activate ==
    /\ procs.serve = "spawned"
    /\ objs' = [objs EXCEPT !.started = TRUE]
    /\ procs' = [procs EXCEPT !.serve = "loop"]
    /\ UNCHANGED <<rrs, arrays, last, log>>

\* for srv.isStarted() { ... } return nil
LoopCheck ==
    /\ procs.serve = "loop"
    /\ procs' = [procs EXCEPT !.serve = IF objs.started THEN "accept" ELSE "drain"]
    /\ UNCHANGED <<rrs, arrays, last, log, objs>>

\* Accept or ReadFrom returns a connection or a packet: wg.Add(1) and a
\* handler goroutine
AcceptRequest ==
    /\ procs.serve = "accept"
    /\ objs.open /\ ~objs.deadline
    /\ log.requests < MaxRequests
    /\ objs' = [objs EXCEPT !.wg = @ + 1]
    /\ procs' = [procs EXCEPT !.serve = "loop", !.h[log.requests + 1] = "running"]
    /\ log' = [log EXCEPT !.requests = @ + 1]
    /\ UNCHANGED <<rrs, arrays, last>>

\* Accept or ReadFrom returns an error: after Shutdown, or from the network
\* at any time; the loop is left when the server is not started or the
\* error is not temporary
AcceptError ==
    \E temporary \in BOOLEAN :
        /\ procs.serve = "accept"
        /\ procs' = [procs EXCEPT !.serve =
                        IF ~objs.started THEN "drain"
                        ELSE IF temporary THEN "loop" ELSE "drain"]
        /\ UNCHANGED <<rrs, arrays, last, log, objs>>

\* the deferred wg.Wait() and close(srv.shutdown)
Drain ==
    /\ procs.serve = "drain"
    /\ objs.wg = 0
    /\ objs' = [objs EXCEPT !.shutdown = @ + 1]
    /\ procs' = [procs EXCEPT !.serve = "unwind"]
    /\ UNCHANGED <<rrs, arrays, last, log>>

\* the deferred l.Close() and the return of ActivateAndServe
ReturnFromServe ==
    /\ procs.serve = "unwind"
    /\ objs' = [objs EXCEPT !.open = FALSE]
    /\ procs' = [procs EXCEPT !.serve = "returned"]
    /\ log' = [log EXCEPT !.returned = TRUE]
    /\ UNCHANGED <<rrs, arrays, last>>

\* close(srv.done), the last statement of the goroutine
CloseDone ==
    /\ procs.serve = "returned"
    /\ objs' = [objs EXCEPT !.done = @ + 1]
    /\ procs' = [procs EXCEPT !.serve = "exited"]
    /\ UNCHANGED <<rrs, arrays, last, log>>

\* Handler.ServeDNS in a handler goroutine: rw.WriteMsg(response)
WriteMsg ==
    \E i \in 1..MaxRequests :
        /\ procs.h[i] = "running"
        /\ procs' = [procs EXCEPT !.h[i] = "written"]
        /\ log' = [log EXCEPT !.writes = @ + 1]
        /\ UNCHANGED <<rrs, arrays, last, objs>>

\* a TCP or TLS connection goroutine reads its next query while the server
\* is started
NextQuery ==
    \E i \in 1..MaxRequests :
        /\ objs.kind # "udp"
        /\ procs.h[i] = "written"
        /\ objs.started /\ ~objs.deadline
        /\ log.requests < MaxRequests
        /\ procs' = [procs EXCEPT !.h[i] = "running"]
        /\ log' = [log EXCEPT !.requests = @ + 1]
        /\ UNCHANGED <<rrs, arrays, last, objs>>

\* the handler goroutine ends: wg.Done()
HandlerDone ==
    \E i \in 1..MaxRequests :
        /\ procs.h[i] = "written"
        /\ procs' = [procs EXCEPT !.h[i] = "done"]
        /\ objs' = [objs EXCEPT !.wg = @ - 1]
        /\ UNCHANGED <<rrs, arrays, last, log>>

\* Close, first statement: srv.srv.Shutdown() under the lock of the server.
\* "server not started" makes PanicOnError0 panic; else started is cleared,
\* reads are unblocked and the listener is closed
Shutdown ==
    /\ procs.closer \in {"idle", "closed", "panicked"}
    /\ log.closes < MaxCloses
    /\ log' = [log EXCEPT !.closes = @ + 1]
    /\ IF ~objs.started
       THEN /\ procs' = [procs EXCEPT !.closer = "panicked"]
            /\ UNCHANGED objs
       ELSE /\ procs' = [procs EXCEPT !.closer = "waitshutdown"]
            /\ objs' = [objs EXCEPT !.started = FALSE, !.deadline = TRUE,
                                    !.open = IF objs.kind = "udp" THEN @ ELSE FALSE]
    /\ UNCHANGED <<rrs, arrays, last>>

\* Shutdown receives from srv.shutdown, closes the PacketConn and returns
AwaitShutdown ==
    /\ procs.closer = "waitshutdown"
    /\ objs.shutdown >= 1
    /\ objs' = [objs EXCEPT !.open = FALSE]
    /\ procs' = [procs EXCEPT !.closer = "waitdone"]
    /\ UNCHANGED <<rrs, arrays, last, log>>

\* Close, second statement: <-srv.done, and the return of Close
AwaitDone ==
    /\ procs.closer = "waitdone"
    /\ DoneClosed(objs)
    /\ procs' = [procs EXCEPT !.closer = "closed"]
    /\ log' = [log EXCEPT !.closed = TRUE,
                          !.writesAtClose = IF log.closed THEN @ ELSE log.writes]
    /\ UNCHANGED <<rrs, arrays, last, objs>>

NextServer ==
    \/ Activate
    \/ LoopCheck
    \/ AcceptRequest
    \/ AcceptError
    \/ Drain
    \/ ReturnFromServe
    \/ CloseDone
    \/ WriteMsg
    \/ NextQuery
    \/ HandlerDone
    \/ Shutdown
    \/ AwaitShutdown
    \/ AwaitDone

SpecServer == InitServer /\ [][NextServer]_vars

\* C18: for each of the three servers, when Close has returned the serving
\* goroutine has left its loop, ActivateAndServe has returned and done is
\* closed; done is closed at most once and only by the goroutine that was
\* past the return of ActivateAndServe; and from the return of Close on no
\* handler goroutine is running and no response is written.
C18_CloseWaitsForServeLoop ==
    /\ log.closed =>
          /\ procs.serve = "exited"
          /\ log.returned
          /\ objs.done = 1
          /\ objs.shutdown = 1
          /\ ~objs.open
          /\ \A i \in 1..MaxRequests : procs.h[i] \in {"none", "done"}
          /\ log.writes = log.writesAtClose
    /\ objs.done <= 1
    /\ objs.done = 1 <=> procs.serve = "exited"
    /\ objs.done = 1 => log.returned
    /\ log.returned <=> procs.serve \in {"returned", "exited"}

\* Close has returned from a server that had read every query and written
\* a response to each, after an earlier Close panicked
C18_Witness ==
    /\ procs.closer = "closed"
    /\ log.closes = 2
    /\ log.requests = MaxRequests
    /\ log.writes = MaxRequests
    /\ objs.done = 1

(***************************************************************************)
(* Frame of Remove (Spec)                                                  *)
(***************************************************************************)

\* C21: every Remove(name), under whatever spelling of the name, leaves a
\* store whose keys are the keys it had but for the canonical name, so the
\* records of every type of that name go at once; the entry of every other
\* name is what it was; and when the canonical name had no entry, the map,
\* the arrays and the content are what they were.
C21_RemoveDeletesWholeEntry ==
    [][\A name \in RawNames(NumLabels) :
          Remove("config1", name) =>
             LET key == Stored(name)
             IN /\ DOMAIN Store1' = DOMAIN Store1 \ {key}
                /\ \A k \in DOMAIN Store1' : Store1'[k] = Store1[k]
                /\ key \notin DOMAIN Store1 =>
                      (rrs' = rrs /\ arrays' = arrays /\ Store1' = Store1)]_vars

\* a name was removed and has no entry, while another name keeps its two
\* records of two types
C21_Witness ==
    /\ \E o \in DOMAIN Log1 : Log1[o] = <<>> /\ NameOf(o) \notin DOMAIN Store1
    /\ \E k \in DOMAIN Store1 :
          /\ Len(Store1[k]) = 2
          /\ Store1[k][1].Hdr.Rrtype # Store1[k][2].Hdr.Rrtype

(***************************************************************************)
(* Shape of the responses (Spec)                                           *)
(***************************************************************************)

\* C22: a response whose code is Refused, NameError or ServerFailure has an
\* empty answer, whatever aliases the chase went through; a Success
\* response has an empty answer or one whose last record has the requested
\* type, so that every answer holding an alias record, for a requested type
\* other than the alias type, also holds a record of the requested type.
C22_AnswerOnlyOnSuccess ==
    last.op = "PrepareResponse" =>
        LET resp == last.resp
            n == Len(resp.Answer)
        IN /\ resp.Rcode \in {RcodeSuccess, RcodeRefused, RcodeNameError, RcodeServerFailure}
           /\ resp.Rcode # RcodeSuccess => resp.Answer = <<>>
           /\ (resp.Rcode = RcodeSuccess /\ n > 0) =>
                 /\ IsWellFormed(last.query)
                 /\ resp.Answer[n].Hdr.Rrtype = QType
                 /\ QType # TypeCNAME =>
                       \E i \in 1..n : resp.Answer[i].Hdr.Rrtype # TypeCNAME

\* ServerFailure with an empty answer for an address query on a name whose
\* alias was followed
C22_Witness ==
    /\ IsResolve
    /\ QType = TypeA
    /\ Stored(QName) \in DOMAIN Store1
    /\ OfType(Store1[Stored(QName)], TypeCNAME) # <<>>
    /\ last.resp = [Rcode |-> RcodeServerFailure, Answer |-> <<>>]

(***************************************************************************)
(* Dangling alias targets (SpecChain)                                      *)
(***************************************************************************)

\* C23: when the chase, having followed at least one alias and with
\* iterations left, arrives at a name that has no entry, PrepareResponse
\* returns NameError with an empty answer, although the queried name has an
\* entry.
C23_DanglingTargetIsNameError ==
    IsResolve =>
        LET w == ChaseOf(ChainStore, QName, QType)
        IN (/\ Len(w.path) >= 1
            /\ Len(w.path) < maxCNAMEChain
            /\ w.end \notin DOMAIN ChainStore)
           => /\ Stored(QName) \in DOMAIN ChainStore
              /\ last.resp = [Rcode |-> RcodeNameError, Answer |-> <<>>]

\* an address query under the other spelling of a name whose chain has
\* three aliases and then a target that has no entry
C23_Witness ==
    /\ IsResolve
    /\ QType = TypeAAAA
    /\ QName = AltNameOf(1)
    /\ LET w == ChaseOf(ChainStore, QName, QType)
       IN Len(w.path) = 3 /\ w.end \notin DOMAIN ChainStore
    /\ last.resp.Rcode = RcodeNameError

(***************************************************************************)
(* One step of the chase (SpecResolve)                                     *)
(***************************************************************************)

\* C24: the step of PrepareResponse that follows an alias (the second
\* Lookup of an iteration, when it finds alias records) appends all alias
\* records of the current name, in insertion order, to the aliases
\* collected, and goes on with the target of the first of them; the
\* iteration it belongs to was counted once, by its first Lookup, and is
\* not counted again; no more than 10 iterations are counted.
C24_FollowsFirstAlias ==
    [][/\ (procs.h.pc = "cname" /\ procs'.h.pc = "loop") =>
             LET aliases == OfType(RecordsAt(StoreH, Stored(procs.h.qName)), TypeCNAME)
             IN /\ aliases # <<>>
                /\ procs'.h.cnames = procs.h.cnames \o aliases
                /\ procs'.h.qName = aliases[1].Target
                /\ procs'.h.qType = procs.h.qType
                /\ procs'.h.iter = procs.h.iter
       /\ (procs.h.pc = "loop" /\ procs'.h.pc = "cname") =>
             /\ procs'.h.iter = procs.h.iter + 1
             /\ procs'.h.iter <= maxCNAMEChain
             /\ procs'.h.cnames = procs.h.cnames
             /\ procs'.h.qName = procs.h.qName]_vars

\* after one iteration the chase holds the two aliases of the queried name,
\* that have different targets, and goes on with the target of the first
C24_Witness ==
    /\ procs.h.pc = "loop"
    /\ procs.h.iter = 1
    /\ Len(procs.h.cnames) = 2
    /\ procs.h.cnames[1].Target # procs.h.cnames[2].Target
    /\ procs.h.qName = procs.h.cnames[1].Target
    /\ procs.h.qName # Stored(procs.h.query.Question[1].Name)

(***************************************************************************)
(* Names are addressed by their canonical form (Spec)                      *)
(***************************************************************************)

\* the spellings of the name that name is a spelling of
Spellings(name) == {n \in RawNames(NumLabels) : OwnerOf(n) = OwnerOf(name)}

\* C25: the store is addressed by canonical names.  Its keys, the owner
\* names of its records and the targets of its aliases are canonical; a
\* Lookup under one spelling returns what it returns under every other
\* spelling; a chase whose aliases lead to a name with records of the
\* requested type finds them; and on every content the store has between
\* two calls (last is NoCall then), after an Add under one spelling (made
\* while the store holds fewer than MaxRecs records) the record is the last
\* one a Lookup of its type returns under every spelling, and after a
\* Remove under one spelling no spelling has an entry.
C25_CanonicalAddressing ==
    /\ DOMAIN Store1 \subseteq Names(NumLabels)
    /\ \A k \in DOMAIN Store1 : \A i \in 1..Len(Store1[k]) :
          /\ Store1[k][i].Hdr.Name = k
          /\ Store1[k][i].Hdr.Rrtype = TypeCNAME =>
                Store1[k][i].Target \in Names(NumLabels)
    /\ IsLookup =>
          \A n \in Spellings(last.name) :
              Lookup(rrs, arrays, "config1", n, last.qtype)
                 = [records |-> last.records, found |-> last.found]
    /\ IsResolve =>
          LET w == ChaseOf(Store1, QName, QType)
          IN Resolves(Store1, w, QType) => last.resp.Rcode = RcodeSuccess
    /\ last = NoCall =>
          \A name \in RawNames(NumLabels) :
             /\ LET st == StoreRemove(rrs, arrays, "config1", name)
                IN \A n \in Spellings(name), t \in QTypes :
                       Lookup(st.rrs, st.arrays, "config1", n, t)
                          = [records |-> <<>>, found |-> FALSE]
             /\ \A addr \in Addrs :
                   Total("config1") < MaxRecs =>
                   LET st == StoreAddNetipAddr(rrs, arrays, "config1", name, addr)
                   IN \A n \in Spellings(name) :
                          LET l == Lookup(st.rrs, st.arrays, "config1", n,
                                          IF Is6(addr) THEN TypeAAAA ELSE TypeA)
                          IN /\ l.found
                             /\ Payload(l.records[Len(l.records)]) = AddedAddr(addr)
             /\ \A cname \in RawNames(NumLabels) :
                   Total("config1") < MaxRecs =>
                   LET st == StoreAddCNAME(rrs, arrays, "config1", name, cname)
                   IN \A n \in Spellings(name) :
                          LET l == Lookup(st.rrs, st.arrays, "config1", n, TypeCNAME)
                          IN /\ l.found
                             /\ l.records[Len(l.records)].Target = Stored(cname)

\* the query under the upper-case spelling without dot is answered with the
\* alias of the name and the address of the target of the alias
C25_Witness ==
    /\ IsResolve
    /\ QName = AltNameOf(1)
    /\ last.resp.Rcode = RcodeSuccess
    /\ Len(last.resp.Answer) = 2
    /\ last.resp.Answer[1].Hdr = [Name |-> NameOf(1), Rrtype |-> TypeCNAME,
                                  Class |-> ClassINET, Ttl |-> handlerDefaultTTL]
    /\ last.resp.Answer[1].Target = NameOf(2)
    /\ last.resp.Answer[2].Hdr.Name = NameOf(2)
    /\ last.resp.Answer[2].Hdr.Rrtype = QType

(***************************************************************************)
(* SpecSnapshot: PrepareResponse run step by step, one Lookup under the    *)
(* mutex at a time, while the test goroutine adds and removes between the  *)
(* Lookups.  The history keeps the response PrepareResponse would give on  *)
(* each content the store has between the call and the return.             *)
(***************************************************************************)

SnapshotQueries ==
    {Msg(FALSE, <<Question(AltNameOf(1), t, ClassINET)>>) : t \in {TypeA, TypeCNAME}}

InitSnapshot ==
    /\ rrs = [c \in {"config1"} |-> NewHandlerConfig]
    /\ arrays = <<>>
    /\ last = NoCall
    /\ log = [races |-> 0, seen |-> {}]
    /\ procs = [h |-> NewHandler("config1")]
    /\ objs = <<>>

\* the history after a mutation: one more response the running call could
\* give on a single content of the store
SeenAfter ==
    [races |-> Raced.races,
     seen |-> IF procs.h.pc = "idle" THEN {}
              ELSE log.seen \cup {PrepareResponse(rrs', arrays', "config1", procs.h.query)}]

NextSnapshotEnter ==
    \E query \in SnapshotQueries :
        /\ EnterPrepareResponse(query)
        /\ log' = [races |-> 0, seen |-> {PrepareResponse(rrs, arrays, "config1", query)}]

NextSnapshotLoop == UNCHANGED log /\ LoopLookup

NextSnapshotCname == UNCHANGED log /\ CnameLookup

NextSnapshotReturn == ReturnResponse /\ log' = [races |-> 0, seen |-> {}]

NextSnapshotAddNetipAddr ==
    \E name \in ResolveNames :
        /\ MayMutate
        /\ Total("config1") < MaxRecsResolve
        /\ AddNetipAddr("config1", name, "1.1.1.1")
        /\ log' = SeenAfter
        /\ UNCHANGED <<procs, objs>>

NextSnapshotAddCNAME ==
    \E alias \in ResolveAliases :
        /\ MayMutate
        /\ Total("config1") < MaxRecsResolve
        /\ AddCNAME("config1", alias[1], alias[2])
        /\ log' = SeenAfter
        /\ UNCHANGED <<procs, objs>>

NextSnapshotRemove ==
    \E name \in ResolveNames :
        /\ MayMutate
        /\ Remove("config1", name)
        /\ log' = SeenAfter
        /\ UNCHANGED <<procs, objs>>

NextSnapshot ==
    \/ NextSnapshotEnter
    \/ NextSnapshotLoop
    \/ NextSnapshotCname
    \/ NextSnapshotReturn
    \/ NextSnapshotAddNetipAddr
    \/ NextSnapshotAddCNAME
    \/ NextSnapshotRemove

SpecSnapshot == InitSnapshot /\ [][NextSnapshot]_vars

\* C26 as stated: the response a PrepareResponse is about to return, with
\* Add and Remove running between its Lookups, is the response
\* PrepareResponse gives on one of the contents the store had between the
\* call and the return.
C26_ResponseOfOneState ==
    Returned("PrepareResponse") => procs.h.resp \in log.seen

(***************************************************************************)
(* SpecLive: goroutines calling AddNetipAddr, AddCNAME, Remove, Lookup,    *)
(* Clone and PrepareResponse on one store, statement by statement; a       *)
(* PrepareResponse takes the mutex once for each of its Lookups.           *)
(***************************************************************************)

MaxCallsLive == 2     \* calls made by all goroutines together in SpecLive

\* the locals of PrepareResponse in a goroutine that is not running it
NoResolve ==
    [active |-> FALSE, qName |-> <<>>, cnames |-> <<>>, iter |-> 0, phase |-> "none",
     resp |-> [Rcode |-> "none", Answer |-> <<>>]]

InitLive ==
    /\ rrs = [c \in {"config1"} |-> NewHandlerConfig]
    /\ arrays = <<>>
    /\ last = NoCall
    /\ procs = [t \in Threads |-> Ready]
    /\ objs = [mu |-> "free", pr |-> [t \in Threads |-> NoResolve]]
    /\ log = [calls |-> 0]

\* the goroutine is inside a call
Busy(t) == InFlight(t) \/ objs.pr[t].active

\* h.cfg.Lookup(name, ...) is called: the goroutine arrives at c.mu.Lock()
IssueLookup(op, name) == [Ready EXCEPT !.pc = "lock", !.op = op, !.name = name]

\* PrepareResponse returns resp
Finish(resp) == [pr |-> [NoResolve EXCEPT !.resp = resp], proc |-> Ready]

\* the head of the loop: the end of the loop (3.5) or the first Lookup of
\* the next iteration (3.1)
LoopHead(pr) ==
    IF LoopOver(pr.iter)
    THEN Finish(ChainTooLong)
    ELSE [pr |-> [pr EXCEPT !.iter = @ + 1, !.phase = "first"],
          proc |-> IssueLookup("Lookup", pr.qName)]

\* PrepareResponse is called by t: steps 1 and 2, then the head of the loop
PrepareResponseStart(t, query) ==
    LET go == IF Refuses(query)
              THEN Finish(Reply(RcodeRefused, <<>>))
              ELSE LoopHead([NoResolve EXCEPT !.active = TRUE,
                                              !.qName = query.Question[1].Name])
    IN /\ procs[t].pc = "idle"
       /\ ~objs.pr[t].active
       /\ procs' = [procs EXCEPT ![t] = go.proc]
       /\ objs' = [objs EXCEPT !.pr[t] = go.pr]
       /\ UNCHANGED <<rrs, arrays, last>>

\* PrepareResponse after a Lookup returned: the switch on its result (3.2,
\* 3.3, 3.4) after the first Lookup of an iteration, the inner switch
\* (3.3.2, 3.3.3) after the second
Decide(t) ==
    LET p == procs[t]
        pr == objs.pr[t]
        go == IF pr.phase = "first"
              THEN IF p.found /\ Len(p.filtered) > 0
                   THEN Finish(Reply(RcodeSuccess, Answer(pr.cnames, p.filtered)))
                   ELSE IF p.found /\ Len(p.filtered) <= 0
                   THEN [pr |-> [pr EXCEPT !.phase = "second"],
                         proc |-> IssueLookup("LookupCNAME", pr.qName)]
                   ELSE Finish(NoSuchName)
              ELSE IF p.found /\ Len(p.filtered) >= 1
                   THEN LoopHead([pr EXCEPT !.cnames = @ \o p.filtered,
                                            !.qName = NextName(p.filtered)])
                   ELSE Finish(NoSuchType)
    IN /\ p.pc = "idle"
       /\ pr.active
       /\ procs' = [procs EXCEPT ![t] = go.proc]
       /\ objs' = [objs EXCEPT !.pr[t] = go.pr]
       /\ UNCHANGED <<rrs, arrays, last>>

LiveOps == {"AddNetipAddr", "AddCNAME", "Remove", "Lookup", "Clone"}

LiveQueries ==
    {Msg(FALSE, <<Question(AltNameOf(1), TypeA, ClassINET)>>),
     Msg(FALSE, <<Question(NameOf(2), TypeA, ClassINET)>>),
     Msg(FALSE, <<Question(NameOf(1), TypeA, ClassCHAOS)>>)}

NextLiveCall ==
    \E t \in Threads, op \in LiveOps :
        /\ log.calls < MaxCallsLive
        /\ ~objs.pr[t].active
        /\ Call(t, op, AltNameOf(1))
        /\ log' = [calls |-> log.calls + 1]

NextLivePrepareResponse ==
    \E t \in Threads, query \in LiveQueries :
        /\ log.calls < MaxCallsLive
        /\ PrepareResponseStart(t, query)
        /\ log' = [calls |-> log.calls + 1]

NextLiveDecide == \E t \in Threads : Decide(t) /\ UNCHANGED log

NextLiveAcquire == \E t \in Threads : Acquire(t) /\ UNCHANGED log

NextLiveReadMap == \E t \in Threads : ReadMap(t) /\ UNCHANGED log

NextLiveWriteBack == \E t \in Threads : WriteBack(t) /\ UNCHANGED log

NextLiveCopyEntry == \E t \in Threads : CopyEntry(t) /\ UNCHANGED log

NextLiveRelease == \E t \in Threads : Release(t) /\ UNCHANGED log

NextLive ==
    \/ NextLiveCall
    \/ NextLivePrepareResponse
    \/ NextLiveDecide
    \/ NextLiveAcquire
    \/ NextLiveReadMap
    \/ NextLiveWriteBack
    \/ NextLiveCopyEntry
    \/ NextLiveRelease

SpecLive == InitLive /\ [][NextLive]_vars

\* the statements of goroutine t inside a call
StepOf(t) ==
    /\ UNCHANGED log
    /\ \/ Decide(t)
       \/ Acquire(t)
       \/ ReadMap(t)
       \/ WriteBack(t)
       \/ CopyEntry(t)
       \/ Release(t)

\* every goroutine is scheduled, and a goroutine that waits in Lock gets the
\* mutex once it is free
SpecLiveFair == SpecLive /\ \A t \in Threads : WF_vars(StepOf(t))

\* C27: with the goroutines scheduled fairly every call returns, and no
\* deadlock is reachable: the holder of the mutex is always a goroutine
\* between Lock and Unlock of one map operation (it is not waiting in Lock
\* and has not returned), and while some call is running, some goroutine
\* in a call can take a step.
C27_EveryCallReturns ==
    /\ [](/\ objs.mu \in Threads \cup {"free"}
          /\ \A t \in Threads : objs.mu = t <=> Holding(t)
          /\ (\E t \in Threads : Busy(t)) =>
                \E t \in Threads : Busy(t) /\ (procs[t].pc = "lock" => objs.mu = "free"))
    /\ \A t \in Threads : Busy(t) ~> ~Busy(t)

\* t1, inside PrepareResponse, waits in the Lock of a Lookup for the mutex
\* that t2 holds inside an AddCNAME
C27_Witness ==
    /\ objs.pr["t1"].active
    /\ procs["t1"].op = "Lookup"
    /\ procs["t1"].pc = "lock"
    /\ objs.mu = "t2"
    /\ procs["t2"].op = "AddCNAME"
    /\ procs["t2"].pc = "write"

(***************************************************************************)
(* Close at any moment after the constructor returned (SpecServer)         *)
(***************************************************************************)

\* C28: the first Close of a server, issued at any moment after the
\* constructor returned (the background goroutine may not have entered
\* ActivateAndServe yet), completes normally: Shutdown reports no error, so
\* Close does not panic.
C28_CloseCompletesNormally == log.closes = 1 => procs.closer # "panicked"

====
